---- MODULE Spec2Model ----
(***************************************************************************)
(* Radial diagram generator: configuration validation (core/types.ts),     *)
(* geometry utilities (core/geometry.ts, listed in src/src/core/types.ts   *)
(* from line 254 on) and the SVG renderer (renderers/svg.js).              *)
(*                                                                         *)
(* JavaScript numbers are modelled as exact rationals <<n, d>> in lowest   *)
(* terms with d > 0: +, -, * and / are the arithmetic of the reals, so the *)
(* rounding of IEEE-754 doubles is outside this model.  JavaScript values  *)
(* that may be absent are tagged records: [t |-> "undefined"],             *)
(* [t |-> "null"], [t |-> "number", v |-> <<n, d>>], [t |-> "object", ...].*)
(***************************************************************************)
EXTENDS Integers, Sequences, FiniteSets, TLC

VARIABLES
    pc,          \* position of the caller: idle / validated / geometry / the renderer's position
    config,      \* the DiagramConfig handed to validateConfig or to the constructor
    validation,  \* the ValidationResult {valid, errors} of the last validateConfig call
    renderer,    \* the SVGRenderer instance (this.cx, this.cy, this.outerRadius), if constructed
    elements,    \* render()'s local `elements`: the groups pushed so far, in order
    calls,       \* the calls render() has made to the guarded geometry functions, in order
    thrown,      \* the Error thrown to the caller, if any
    svg,         \* the string render() returned, if it returned
    call,        \* a direct call of a geometry function: its name and arguments
    ret          \* what that call returned or threw

vars == <<pc, config, validation, renderer, elements, calls, thrown, svg, call, ret>>

----------------------------------------------------------------------------
(* Bounds of the model *)

\* longest `segments` array of a validated config
MaxSegments == 3
\* longest `facets` array of a segment
MaxFacets == 2
\* largest scale bound and score handed directly to scoreToRadius
MaxScore == 4
\* largest count handed directly to segmentAngle, facetAngles and ringRadii
MaxCount == 4

----------------------------------------------------------------------------
(* JavaScript numbers as exact rationals *)

Abs(x) == IF x < 0 THEN -x ELSE x

RECURSIVE GCD(_, _)
GCD(a, b) == IF b = 0 THEN a ELSE GCD(b, a % b)

\* n/d in lowest terms, d > 0
Rat(n, d) ==
    LET s == IF d < 0 THEN -1 ELSE 1
        g == GCD(Abs(n), Abs(d))
    IN  <<(s * n) \div g, (s * d) \div g>>

\* the integer n as a number
Whole(n) == <<n, 1>>

Add(a, b) == Rat(a[1] * b[2] + b[1] * a[2], a[2] * b[2])
Sub(a, b) == Rat(a[1] * b[2] - b[1] * a[2], a[2] * b[2])
Mul(a, b) == Rat(a[1] * b[1], a[2] * b[2])
\* a / b for b # 0 (every division of the source is guarded, or by a constant)
Div(a, b) == Rat(a[1] * b[2], a[2] * b[1])

Lt(a, b) == a[1] * b[2] < b[1] * a[2]
Le(a, b) == a[1] * b[2] <= b[1] * a[2]
Gt(a, b) == Lt(b, a)
Ge(a, b) == Le(b, a)

\* Math.max / Math.min of two numbers
MathMax(a, b) == IF Ge(a, b) THEN a ELSE b
MathMin(a, b) == IF Le(a, b) THEN a ELSE b

IsInteger(a) == a[2] = 1

\* the integer nearest to a, halves away from zero
Round(a) ==
    IF a[1] >= 0 THEN (2 * a[1] + a[2]) \div (2 * a[2])
    ELSE -((2 * (-a[1]) + a[2]) \div (2 * a[2]))

\* Number.prototype.toFixed(1): the number rounded to one decimal
toFixed1(a) == Rat(Round(Mul(a, Whole(10))), 10)

\* !x for a number x
Falsy(x) == x[1] = 0

\* the integer part of a, towards zero
Trunc(a) == IF a[1] >= 0 THEN a[1] \div a[2] ELSE -((-a[1]) \div a[2])

\* a % m: the remainder with the sign of a
JsMod(a, m) == Sub(a, Mul(m, Whole(Trunc(Div(a, m)))))

\* mutant: the angle is reduced without the shift, angle % 360
NormalizeOnce(angle) == JsMod(angle, Whole(360))

\* ((angle % 360) + 360) % 360
NormalizeAngle(angle) ==
    JsMod(Add(JsMod(angle, Whole(360)), Whole(360)), Whole(360))

\* the smallest integer >= a
Ceil(a) == -((-a[1]) \div a[2])

----------------------------------------------------------------------------
(* JavaScript values that may be absent *)

Undefined == [t |-> "undefined"]
Null == [t |-> "null"]
Num(r) == [t |-> "number", v |-> r]
Bool(b) == [t |-> "boolean", v |-> b]
Str(s) == [t |-> "string", v |-> s]

\* x !== undefined && x !== null
Present(x) == x.t # "undefined" /\ x.t # "null"

\* the truthiness of a value in a condition
Truthy(x) ==
    CASE x.t = "undefined" -> FALSE
      [] x.t = "null" -> FALSE
      [] x.t = "number" -> ~Falsy(x.v)
      [] x.t = "boolean" -> x.v
      [] x.t = "string" -> x.v # ""
      [] OTHER -> TRUE

\* the concatenation of the sequences q[1], ..., q[n]
\* a JavaScript string whose characters the code looks at: the sequence of its
\* characters, so that s.length is Len(s)
RECURSIVE SplitFrom(_, _, _)
SplitFrom(s, sep, acc) ==
    IF s = <<>> THEN <<acc>>
    ELSE IF Head(s) = sep THEN <<acc>> \o SplitFrom(Tail(s), sep, <<>>)
    ELSE SplitFrom(Tail(s), sep, Append(acc, Head(s)))

\* s.split(sep) for a one-character separator
Split(s, sep) == SplitFrom(s, sep, <<>>)

RECURSIVE TrimStart(_)
TrimStart(s) == IF s # <<>> /\ Head(s) = " " THEN TrimStart(Tail(s)) ELSE s

RECURSIVE TrimEnd(_)
TrimEnd(s) ==
    IF s # <<>> /\ s[Len(s)] = " " THEN TrimEnd(SubSeq(s, 1, Len(s) - 1)) ELSE s

\* s.trim()
Trim(s) == TrimEnd(TrimStart(s))

\* Math.max(...xs) of a non-empty array of integers
MaxOf(xs) == CHOOSE x \in {xs[i] : i \in 1..Len(xs)} : \A j \in 1..Len(xs) : xs[j] <= x

RECURSIVE FlatN(_, _)
FlatN(q, n) == IF n = 0 THEN <<>> ELSE FlatN(q, n - 1) \o q[n]
Flatten(q) == FlatN(q, Len(q))

----------------------------------------------------------------------------
(* core/types.ts: validateConfig *)

\* mutant: the 90% margin factor is dropped
HalfSize(size) == Div(size, Whole(2))

\* (config.size / 2) * 0.9
ComputeOuterRadius(size) == Mul(Div(size, Whole(2)), Rat(9, 10))

\* mutant: the boundary radius == outerRadius is let through
RadiusExceedsOuter(radius, outerRadius) == Gt(radius, outerRadius)

\* config.center.radius >= outerRadius
RadiusReachesOuter(radius, outerRadius) == Ge(radius, outerRadius)

\* facet.score < config.scale.min || facet.score > config.scale.max
ScoreOutsideScale(score, min, max) == Lt(score, min) \/ Gt(score, max)

\* the errors of one facet's score (the inner forEach of validateConfig)
FacetErrors(cfg, segIndex, facetIndex) ==
    LET facet == cfg.segments[segIndex + 1].facets[facetIndex + 1]
    IN  IF facet.score.t # "undefined" /\ facet.score.t # "null"
        THEN IF ScoreOutsideScale(facet.score.v, cfg.scale.min, cfg.scale.max)
             THEN << [text |-> "score must be between scale.min and scale.max",
                      segIndex |-> segIndex, facetIndex |-> facetIndex,
                      score |-> facet.score.v,
                      min |-> cfg.scale.min, max |-> cfg.scale.max] >>
             ELSE <<>>
        ELSE <<>>

\* mutant: a segment without facets is not reported
SegmentErrorsSkippingEmpty(cfg, segIndex) ==
    IF Truthy(cfg.scale)
    THEN Flatten([j \in 1..Len(cfg.segments[segIndex + 1].facets) |->
                     FacetErrors(cfg, segIndex, j - 1)])
    ELSE <<>>

\* the errors of one segment (the outer forEach of validateConfig)
SegmentErrors(cfg, segIndex) ==
    LET segment == cfg.segments[segIndex + 1]
    IN  IF Len(segment.facets) = 0
        THEN << [text |-> "segment must contain at least one facet",
                 segIndex |-> segIndex] >>
        ELSE IF Truthy(cfg.scale)
             THEN Flatten([j \in 1..Len(segment.facets) |->
                               FacetErrors(cfg, segIndex, j - 1)])
             ELSE <<>>

\* the `errors` array validateConfig has built when it returns
ConfigErrors(cfg) ==
    LET sizeErrors ==
            IF Falsy(cfg.size) \/ Le(cfg.size, Whole(0))
            THEN << [text |-> "size must be greater than 0"] >>
            ELSE <<>>
        centerErrors ==
            IF ~Truthy(cfg.center)
            THEN << [text |-> "center configuration is required"] >>
            ELSE IF Falsy(cfg.center.radius) \/ Le(cfg.center.radius, Whole(0))
                 THEN << [text |-> "center.radius must be greater than 0"] >>
                 ELSE <<>>
        scaleErrors ==
            IF ~Truthy(cfg.scale)
            THEN << [text |-> "scale configuration is required"] >>
            ELSE (IF Gt(cfg.scale.min, cfg.scale.max)
                  THEN << [text |-> "scale.min must be less than or equal to scale.max"] >>
                  ELSE <<>>)
                 \o
                 (IF Falsy(cfg.scale.rings) \/ Le(cfg.scale.rings, Whole(0))
                  THEN << [text |-> "scale.rings must be greater than 0"] >>
                  ELSE <<>>)
        segmentsErrors ==
            IF Len(cfg.segments) = 0
            THEN << [text |-> "segments array must contain at least one segment"] >>
            ELSE Flatten([i \in 1..Len(cfg.segments) |-> SegmentErrors(cfg, i - 1)])
        outerErrors ==
            IF ~Falsy(cfg.size) /\ Truthy(cfg.center) /\ ~Falsy(cfg.center.radius)
            THEN LET outerRadius == ComputeOuterRadius(cfg.size)
                 IN  IF RadiusReachesOuter(cfg.center.radius, outerRadius)
                     THEN << [text |-> "center.radius must be less than outer radius",
                              radius |-> cfg.center.radius,
                              outerRadius |-> toFixed1(outerRadius)] >>
                     ELSE <<>>
            ELSE <<>>
    IN  sizeErrors \o centerErrors \o scaleErrors \o segmentsErrors \o outerErrors

validateConfig(cfg) ==
    LET errors == ConfigErrors(cfg)
    IN  [valid |-> Len(errors) = 0, errors |-> errors]

----------------------------------------------------------------------------
(* core/geometry.ts: the guarded geometry functions.  A call either        *)
(* returns a value or throws an Error with a message.                      *)

Return(v) == [threw |-> FALSE, value |-> v]
Throw(message) == [threw |-> TRUE, message |-> message]

\* the largest integer <= a
Floor(a) == a[1] \div a[2]

\* the length Array.from({ length: x }) gives its result: x truncated, at least 0
ToLength(x) == IF Le(x, Whole(0)) THEN 0 ELSE Floor(x)

\* Math.cos and Math.sin return doubles.  At a multiple of 90 degrees the
\* argument (angleDegrees * Math.PI) / 180 is the double nearest m * pi / 2,
\* not m * pi / 2, so where the exact value is 0 the result is a small
\* multiple of delta = Math.cos(Math.PI / 2) = 6.123233995736766e-17
\* (Math.sin(Math.PI) is 2 * delta, Math.cos(3 * Math.PI / 2) is -3 * delta);
\* where it is 1 or -1 the result is exact.  A trig value is q + d * delta,
\* or, at any other angle, the symbol fn(deg).
Trig(q, d) == [q |-> Whole(q), d |-> d, fn |-> "", deg |-> Whole(0)]
TrigSymbol(fn, deg) == [q |-> Whole(0), d |-> 0, fn |-> fn, deg |-> deg]

\* the angle is m * 90 degrees for an integer m
IsCardinal(angleDegrees) == IsInteger(Div(angleDegrees, Whole(90)))
Quadrant(angleDegrees) == Div(angleDegrees, Whole(90))[1]

\* (-1)^k
Sign(k) == IF k % 2 = 0 THEN 1 ELSE -1

MathCos(angleDegrees) ==
    IF ~IsCardinal(angleDegrees) THEN TrigSymbol("cos", angleDegrees)
    ELSE LET m == Quadrant(angleDegrees)
         IN  IF m % 2 = 0 THEN Trig(Sign(m \div 2), 0)
             ELSE Trig(0, m * Sign((m - 1) \div 2))

\* mutant: the vertical axis points up
MathSinUpward(angleDegrees) ==
    IF ~IsCardinal(angleDegrees) THEN TrigSymbol("sin", angleDegrees)
    ELSE LET m == Quadrant(angleDegrees)
         IN  IF m % 2 = 0 THEN Trig(0, m * Sign(m \div 2))
             ELSE Trig(-Sign((m - 1) \div 2), 0)

MathSin(angleDegrees) ==
    IF ~IsCardinal(angleDegrees) THEN TrigSymbol("sin", angleDegrees)
    ELSE LET m == Quadrant(angleDegrees)
         IN  IF m % 2 = 0 THEN Trig(0, -(m * Sign(m \div 2)))
             ELSE Trig(Sign((m - 1) \div 2), 0)

\* delta in units of 2^-53 (half the spacing of the doubles in [1, 2)), to five digits
DeltaInHalfUlps == Rat(55153, 100000)

\* the largest power of two <= a, for a > 0, searched from p
RECURSIVE Pow2Floor(_, _)
Pow2Floor(a, p) ==
    IF Lt(a, p) THEN Pow2Floor(a, Div(p, Whole(2)))
    ELSE IF Ge(a, Mul(p, Whole(2))) THEN Pow2Floor(a, Mul(p, Whole(2)))
    ELSE p

\* c + t * delta rounds to c: t * delta is below half the spacing of the doubles at c
Absorbed(c, t) ==
    LET a == IF Lt(c, Whole(0)) THEN Sub(Whole(0), c) ELSE c
        size == IF Lt(t, Whole(0)) THEN Sub(Whole(0), t) ELSE t
        p == Pow2Floor(a, Whole(1))
        inward == (Lt(c, Whole(0)) /\ Gt(t, Whole(0))) \/ (Gt(c, Whole(0)) /\ Lt(t, Whole(0)))
        half == IF a = p /\ inward THEN Div(p, Whole(2)) ELSE p
    IN  c # Whole(0) /\ Lt(Mul(size, DeltaInHalfUlps), half)

\* a coordinate: the number q, plus d * delta where the sum did not absorb it,
\* plus radius * fn(deg) at an angle that is no multiple of 90 degrees
Coord(q, d, radius, fn, deg) == [q |-> q, d |-> d, radius |-> radius, fn |-> fn, deg |-> deg]
Exact(q) == Coord(q, Whole(0), Whole(0), "", Whole(0))

\* c + radius * t for a trig value t
PlusProduct(c, radius, t) ==
    IF radius = Whole(0) THEN Exact(c)
    ELSE IF t.fn # "" THEN Coord(c, Whole(0), radius, t.fn, t.deg)
    ELSE LET e == Add(c, Mul(radius, t.q))
             tiny == Mul(radius, Whole(t.d))
         IN  IF tiny = Whole(0) \/ Absorbed(e, tiny) THEN Exact(e)
             ELSE Coord(e, tiny, Whole(0), "", Whole(0))

polarToCartesian(cx, cy, radius, angleDegrees) ==
    [x |-> PlusProduct(cx, radius, MathCos(angleDegrees)),
     y |-> PlusProduct(cy, radius, MathSin(angleDegrees))]

\* an SVG path: the commands of the d attribute in order
MoveTo(p) == [op |-> "M", x |-> p.x, y |-> p.y]
LineTo(p) == [op |-> "L", x |-> p.x, y |-> p.y]
ArcTo(radius, largeArcFlag, sweepFlag, p) ==
    [op |-> "A", rx |-> radius, ry |-> radius, rotation |-> 0,
     largeArc |-> largeArcFlag, sweep |-> sweepFlag, x |-> p.x, y |-> p.y]
ClosePath == [op |-> "Z"]

\* mutant: a half turn counts as the long way round
LargeArcFlagFromHalfTurn(angleDiff) ==
    IF Ge(angleDiff, Whole(180)) \/ Le(angleDiff, Whole(-180)) THEN 1 ELSE 0

\* Math.abs(angleDiff) > 180 ? 1 : 0
LargeArcFlag(angleDiff) ==
    IF Gt(angleDiff, Whole(180)) \/ Lt(angleDiff, Whole(-180)) THEN 1 ELSE 0

\* angleDiff > 0 ? 1 : 0
SweepFlag(angleDiff) == IF Gt(angleDiff, Whole(0)) THEN 1 ELSE 0

describeArc(cx, cy, radius, startAngle, endAngle) ==
    LET start == polarToCartesian(cx, cy, radius, startAngle)
        end == polarToCartesian(cx, cy, radius, endAngle)
        angleDiff == Sub(endAngle, startAngle)
    IN  <<MoveTo(start),
          ArcTo(radius, LargeArcFlag(angleDiff), SweepFlag(angleDiff), end)>>

\* mutant: the ring segment is left open
RingSegmentOpen(outerStart, outerEnd, innerStart, innerEnd, innerRadius, outerRadius, largeArcFlag) ==
    <<MoveTo(outerStart),
      ArcTo(outerRadius, largeArcFlag, 1, outerEnd),
      LineTo(innerEnd),
      ArcTo(innerRadius, largeArcFlag, 0, innerStart)>>

\* the ring segment (donut slice) of segmentPath
RingSegment(outerStart, outerEnd, innerStart, innerEnd, innerRadius, outerRadius, largeArcFlag) ==
    <<MoveTo(outerStart),
      ArcTo(outerRadius, largeArcFlag, 1, outerEnd),
      LineTo(innerEnd),
      ArcTo(innerRadius, largeArcFlag, 0, innerStart),
      ClosePath>>

segmentPath(cx, cy, innerRadius, outerRadius, startAngle, endAngle) ==
    LET outerStart == polarToCartesian(cx, cy, outerRadius, startAngle)
        outerEnd == polarToCartesian(cx, cy, outerRadius, endAngle)
        innerStart == polarToCartesian(cx, cy, innerRadius, startAngle)
        innerEnd == polarToCartesian(cx, cy, innerRadius, endAngle)
        angleDiff == Sub(endAngle, startAngle)
        largeArcFlag == LargeArcFlag(angleDiff)
    IN  IF innerRadius = Whole(0)
        THEN <<MoveTo([x |-> Exact(cx), y |-> Exact(cy)]),
               LineTo(outerStart),
               ArcTo(outerRadius, largeArcFlag, 1, outerEnd),
               ClosePath>>
        ELSE RingSegment(outerStart, outerEnd, innerStart, innerEnd, innerRadius,
                         outerRadius, largeArcFlag)

labelOrientation(angle) ==
    LET normalizedAngle == NormalizeAngle(angle)
        flipped == Gt(normalizedAngle, Whole(90)) /\ Lt(normalizedAngle, Whole(270))
        rotation == IF flipped THEN Add(Add(normalizedAngle, Whole(90)), Whole(180))
                    ELSE Add(normalizedAngle, Whole(90))
        textAnchor == IF Ge(normalizedAngle, Whole(350)) \/ Le(normalizedAngle, Whole(10))
                      THEN "start"
                      ELSE IF Ge(normalizedAngle, Whole(170)) /\ Le(normalizedAngle, Whole(190))
                      THEN "end"
                      ELSE "middle"
    IN  [textAnchor |-> textAnchor, rotation |-> rotation, alignmentBaseline |-> "middle"]

segmentAngle(segmentCount) ==
    IF Le(segmentCount, Whole(0))
    THEN Throw("segmentCount must be greater than 0")
    ELSE Return(Div(Whole(360), segmentCount))

\* mutant: the span is divided among one facet too many
FacetAngleSpanOffByOne(totalAngle, facetCount) ==
    Div(totalAngle, Add(facetCount, Whole(1)))

\* totalAngle / facetCount
FacetAngleSpan(totalAngle, facetCount) == Div(totalAngle, facetCount)

facetAngles(segmentStartAngle, segmentEndAngle, facetCount) ==
    IF Le(facetCount, Whole(0))
    THEN Throw("facetCount must be greater than 0")
    ELSE LET totalAngle == Sub(segmentEndAngle, segmentStartAngle)
             facetAngleSpan == FacetAngleSpan(totalAngle, facetCount)
         IN  Return([k \in 1..ToLength(facetCount) |->
                 LET i == k - 1
                     startAngle == Add(segmentStartAngle, Mul(Whole(i), facetAngleSpan))
                     endAngle == Add(startAngle, facetAngleSpan)
                     midAngle == Div(Add(startAngle, endAngle), Whole(2))
                 IN  [startAngle |-> startAngle, endAngle |-> endAngle,
                      midAngle |-> midAngle]])

\* mutant: the score is not clamped
Unclamped(score, minScore, maxScore) == score

\* Math.max(minScore, Math.min(maxScore, score))
ClampScore(score, minScore, maxScore) == MathMax(minScore, MathMin(maxScore, score))

\* mutant: the level count leaves out the inclusive + 1
LevelsExclusive(minScore, maxScore) == Sub(maxScore, minScore)

\* maxScore - minScore + 1
ScoreLevels(minScore, maxScore) == Add(Sub(maxScore, minScore), Whole(1))

\* mutant: continuous interpolation from zero, (clampedScore - minScore) / levels
NormalizeFromZero(clampedScore, minScore, levels) ==
    Div(Sub(clampedScore, minScore), levels)

\* (clampedScore - minScore + 1) / levels
NormalizeScore(clampedScore, minScore, levels) ==
    Div(Add(Sub(clampedScore, minScore), Whole(1)), levels)

\* mutant: the flat scale returns before the radii are checked
scoreToRadiusFlatFirst(score, minScore, maxScore, innerRadius, outerRadius) ==
    IF Gt(minScore, maxScore)
    THEN Throw("minScore must be less than or equal to maxScore")
    ELSE IF minScore = maxScore
    THEN Return(outerRadius)
    ELSE IF Ge(innerRadius, outerRadius)
    THEN Throw("innerRadius must be less than outerRadius")
    ELSE Return(Add(innerRadius,
                    Mul(NormalizeScore(ClampScore(score, minScore, maxScore), minScore,
                                       ScoreLevels(minScore, maxScore)),
                        Sub(outerRadius, innerRadius))))

scoreToRadius(score, minScore, maxScore, innerRadius, outerRadius) ==
    IF Gt(minScore, maxScore)
    THEN Throw("minScore must be less than or equal to maxScore")
    ELSE IF Ge(innerRadius, outerRadius)
    THEN Throw("innerRadius must be less than outerRadius")
    ELSE IF minScore = maxScore
    THEN Return(outerRadius)
    ELSE LET clampedScore == ClampScore(score, minScore, maxScore)
             levels == ScoreLevels(minScore, maxScore)
             radiusRange == Sub(outerRadius, innerRadius)
             normalizedScore == NormalizeScore(clampedScore, minScore, levels)
         IN  Return(Add(innerRadius, Mul(normalizedScore, radiusRange)))

\* mutant: the step counts the radii, not the rings
RingStepPerRadius(ringCount, innerRadius, outerRadius) ==
    Div(Sub(outerRadius, innerRadius), Add(ringCount, Whole(1)))

\* (outerRadius - innerRadius) / ringCount
RingStep(ringCount, innerRadius, outerRadius) ==
    Div(Sub(outerRadius, innerRadius), ringCount)

ringRadii(ringCount, innerRadius, outerRadius) ==
    IF Le(ringCount, Whole(0))
    THEN Throw("ringCount must be greater than 0")
    ELSE IF Ge(innerRadius, outerRadius)
    THEN Throw("innerRadius must be less than outerRadius")
    ELSE LET step == RingStep(ringCount, innerRadius, outerRadius)
         IN  Return([k \in 1..ToLength(Add(ringCount, Whole(1))) |->
                        Add(innerRadius, Mul(Whole(k - 1), step))])

----------------------------------------------------------------------------
(* The configurations handed to the program *)

\* DEFAULT_STYLE, as far as render() reads it
DefaultStyle ==
    [backgroundColor |-> Undefined,
     showSegmentDividers |-> Bool(TRUE),
     showRings |-> Bool(TRUE),
     showScoreLabels |-> Bool(FALSE),
     showFacetPoints |-> Bool(TRUE),
     facetPointStyle |-> Str("circle"),
     segmentDividerWidth |-> Num(Whole(2)),
     segmentFontSize |-> Num(Whole(28))]

\* a center with the label createConfig gives it
Center(radius, visible) ==
    [t |-> "object", radius |-> radius, visible |-> visible,
     label |-> <<"C", "o", "r", "e">>]
LabelledCenter(radius, label) ==
    [t |-> "object", radius |-> radius, visible |-> Undefined, label |-> label]
Scale(min, max, rings) == [t |-> "object", min |-> min, max |-> max, rings |-> rings]

\* facets arrays of up to MaxFacets facets: facet k scored s, the others s2
FacetLists(S) ==
    {<<>>} \cup
    UNION {{[j \in 1..M |-> [score |-> IF j = k THEN s ELSE s2]] :
                k \in 1..M, s \in S, s2 \in S} : M \in 1..MaxFacets}

\* segment names: "Ab", "Values" and "Strategy"
ShortName == <<"A", "b">>
MidName == <<"V", "a", "l", "u", "e", "s">>
LongName == <<"S", "t", "r", "a", "t", "e", "g", "y">>

\* segments arrays of up to MaxSegments segments: segment k has facets F, the others G
SegmentLists(S, Gs) ==
    {<<>>} \cup
    UNION {{[i \in 1..N |-> [name |-> ShortName, facets |-> IF i = k THEN F ELSE G]] :
                k \in 1..N, F \in FacetLists(S), G \in Gs} : N \in 1..MaxSegments}

\* segments arrays of one-facet segments: segment k is named `name`, the others "Ab"
NamedSegmentLists(Names) ==
    UNION {{[i \in 1..N |-> [name |-> IF i = k THEN name ELSE ShortName,
                             facets |-> <<[score |-> Num(Whole(3))]>>]] :
                k \in 1..N, name \in Names} : N \in 1..MaxSegments}

\* configs handed to validateConfig: each invariant of the data model is met
\* by some and broken by others, alone and together
ValidateSizes == {Whole(-20), Whole(0), Whole(20), Whole(40)}
ValidateCenters ==
    {Undefined} \cup {Center(Whole(r), Undefined) : r \in {-5, 0, 5, 9}}
ValidateScales ==
    {Undefined} \cup
    {Scale(Whole(m[1]), Whole(m[2]), Whole(rings)) :
        m \in {<<1, 3>>, <<3, 1>>, <<0, 0>>}, rings \in {0, 2}}
ValidateScores == {Undefined, Null, Num(Whole(0)), Num(Whole(3))}
ValidateConfigs ==
    {[size |-> size, startAngle |-> Whole(-90), center |-> center, scale |-> scale,
      segments |-> segments, style |-> DefaultStyle] :
        size \in ValidateSizes, center \in ValidateCenters, scale \in ValidateScales,
        segments \in SegmentLists(ValidateScores, {<<>>, <<[score |-> Undefined]>>})}

\* configs handed to new SVGRenderer: valid ones of every shape the bounds
\* allow, and ones that break an invariant
RenderSizes == {Whole(0), Whole(800)}
RenderCenters ==
    {Center(Whole(r[1]), r[2]) :
        r \in {<<60, Undefined>>, <<60, Bool(FALSE)>>, <<360, Undefined>>}}
RenderScales ==
    {Scale(Whole(1), Whole(5), Whole(5)), Scale(Whole(0), Whole(5), Whole(2)),
     Scale(Whole(3), Whole(3), Whole(2)), Scale(Whole(5), Whole(1), Whole(5))}
RenderScores == {Undefined, Null, Num(Whole(0)), Num(Whole(3))}
RenderStartAngles == {Whole(-90), Whole(90), Whole(105)}
RenderStyles ==
    {DefaultStyle,
     [DefaultStyle EXCEPT !.backgroundColor = Str("#f0f0f0"),
                          !.showScoreLabels = Bool(TRUE)],
     [DefaultStyle EXCEPT !.showSegmentDividers = Bool(FALSE),
                          !.showRings = Bool(FALSE),
                          !.showFacetPoints = Bool(FALSE)],
     [DefaultStyle EXCEPT !.showRings = Undefined,
                          !.showScoreLabels = Bool(TRUE),
                          !.facetPointStyle = Str("dot")]}
\* center.label: "Core", "A & BC" (two lines) and the empty string
RenderLabels ==
    {<<"C", "o", "r", "e">>, <<"A", " ", "&", " ", "B", "C">>, <<>>}
RenderFontSizes == {Undefined, Num(Whole(28)), Num(Whole(40))}
RenderConfig(size, startAngle, center, scale, segments, style) ==
    [size |-> size, startAngle |-> startAngle, center |-> center, scale |-> scale,
     segments |-> segments, style |-> style]
\* the layers: every size, center and style on the default scale and start angle
LayerConfigs ==
    {RenderConfig(size, Whole(-90), center, Scale(Whole(1), Whole(5), Whole(5)),
                  segments, style) :
        size \in RenderSizes, center \in RenderCenters,
        segments \in SegmentLists(RenderScores, {<<[score |-> Num(Whole(3))]>>}),
        style \in RenderStyles}
\* the angles and radii: every scale and start angle, score labels shown
ScaleConfigs ==
    {RenderConfig(Whole(800), startAngle, Center(Whole(60), Undefined), scale, segments,
                  [DefaultStyle EXCEPT !.showScoreLabels = Bool(TRUE)]) :
        startAngle \in RenderStartAngles, scale \in RenderScales,
        segments \in SegmentLists(RenderScores, {<<[score |-> Num(Whole(3))]>>})}
\* the texts: every hub label, segment name and base font size on a small diagram
TextConfigs ==
    {RenderConfig(Whole(40), Whole(-90), LabelledCenter(Whole(5), label),
                  Scale(Whole(1), Whole(5), Whole(5)), segments,
                  [DefaultStyle EXCEPT !.segmentFontSize = fontSize]) :
        label \in RenderLabels, fontSize \in RenderFontSizes,
        segments \in NamedSegmentLists({ShortName, MidName, LongName})}
RenderConfigs == LayerConfigs \cup ScaleConfigs \cup TextConfigs

\* numbers handed directly to the geometry functions
GeometryScores ==
    {Whole(n) : n \in -1..(MaxScore + 2)} \cup {Rat(21, 5), Rat(1, 2), Rat(5, 2)}
GeometryBounds == {Whole(n) : n \in 0..MaxScore} \cup {Rat(1, 2)}
GeometryRadii == {Whole(0), Whole(50), Whole(60), Whole(150), Whole(360)}
GeometryCounts == {Whole(n) : n \in -1..MaxCount}
GeometryAngles == {Whole(-90), Whole(0), Whole(45), Whole(350)}
GeometryCenters == {Whole(0), Whole(100), Whole(400)}
ArcStarts == {Whole(-90), Whole(0), Whole(350)}
ArcSpans == {Whole(n) : n \in {-270, -180, -90, 0, 90, 180, 270}}
ArcRadii == {Whole(50), Whole(360)}
PathInnerRadii == {Whole(0), Whole(30), Whole(60)}
PathOuterRadii == {Whole(50), Whole(360)}
\* angles at and around every threshold of labelOrientation, and a turn either side
LabelAngles ==
    {Add(n, Whole(360 * k)) :
        n \in {Whole(a) : a \in {0, 5, 10, 11, 45, 90, 91, 135, 169, 170, 180, 190, 191,
                                 225, 269, 270, 271, 315, 349, 350, 359}}
              \cup {Rat(19, 2), Rat(21, 2), Rat(181, 2), Rat(539, 2), Rat(699, 2)},
        k \in {-2, -1, 0, 1}}
PolarAngles == {Whole(n) : n \in {-90, 0, 45, 90, 180, 270, 350}}

----------------------------------------------------------------------------
(* core/types.ts: createConfig(partial).  The partial's fields are values  *)
(* that may be absent; an object is the record of the keys it has.         *)

Obj(fields) == [t |-> "object", v |-> fields]
Arr(items) == [t |-> "array", v |-> items]

\* DEFAULT_SCALE
DefaultScale == [min |-> Num(Whole(1)), max |-> Num(Whole(5)), rings |-> Num(Whole(5))]

\* x ?? d
Coalesce(x, d) == IF Present(x) THEN x ELSE d

\* x || d
OrElse(x, d) == IF Truthy(x) THEN x ELSE d

\* obj?.key
Field(obj, key) ==
    IF Present(obj) /\ key \in DOMAIN obj.v THEN obj.v[key] ELSE Undefined

\* { ...defaults, ...obj }
Spread(defaults, obj) ==
    IF ~Present(obj) THEN defaults
    ELSE [key \in DOMAIN defaults \cup DOMAIN obj.v |->
             IF key \in DOMAIN obj.v THEN obj.v[key] ELSE defaults[key]]

createConfig(partial) ==
    [center |-> [label |-> Coalesce(Field(partial.center, "label"), Str("Core")),
                 radius |-> Coalesce(Field(partial.center, "radius"), Num(Whole(60))),
                 color |-> Coalesce(Field(partial.center, "color"), Str("#8B3A62")),
                 subtitle |-> Field(partial.center, "subtitle"),
                 borderWidth |-> Field(partial.center, "borderWidth"),
                 borderColor |-> Field(partial.center, "borderColor"),
                 visible |-> Field(partial.center, "visible"),
                 fontSize |-> Field(partial.center, "fontSize"),
                 fontColor |-> Field(partial.center, "fontColor")],
     scale |-> Spread(DefaultScale, partial.scale),
     segments |-> OrElse(partial.segments, Arr(<<>>)),
     style |-> Spread(DefaultStyle, partial.style),
     size |-> OrElse(partial.size, Num(Whole(800))),
     startAngle |-> Coalesce(partial.startAngle, Num(Whole(-90)))]

\* partial configs handed to createConfig: each field omitted or provided
PartialSizes == {Undefined, Num(Whole(0)), Num(Whole(600))}
PartialStartAngles == {Undefined, Num(Whole(0)), Num(Whole(45))}
PartialCenters ==
    {Undefined, Obj([label |-> Str("Custom")])} \cup
    {Obj([label |-> label, radius |-> radius, color |-> Str("#123456"),
          visible |-> visible]) :
        label \in {Str("Custom"), Str("")},
        radius \in {Num(Whole(0)), Num(Whole(80))},
        visible \in {Bool(FALSE), Bool(TRUE)}}
PartialScales ==
    {Undefined, Obj([min |-> Num(Whole(0))]),
     Obj([max |-> Num(Whole(10)), rings |-> Num(Whole(10))]),
     Obj([min |-> Num(Whole(2)), max |-> Num(Whole(4)), rings |-> Num(Whole(3))])}
PartialSegments ==
    {Undefined, Arr(<<>>), Arr(<<[facets |-> <<[score |-> Num(Rat(21, 5))]>>]>>)}
PartialStyles ==
    {Undefined, Obj([facetOpacity |-> Num(Rat(1, 2))]),
     Obj([showRings |-> Bool(FALSE), backgroundColor |-> Str("#f0f0f0")])}
PartialConfigs ==
    {[center |-> center, scale |-> scale, segments |-> segments, style |-> style,
      size |-> size, startAngle |-> startAngle] :
        center \in PartialCenters, scale \in PartialScales,
        segments \in PartialSegments, style \in PartialStyles,
        size \in PartialSizes, startAngle \in PartialStartAngles}

----------------------------------------------------------------------------
(* State *)

None == [t |-> "none"]

Init ==
    /\ pc = "idle"
    /\ config = None
    /\ validation = None
    /\ renderer = None
    /\ elements = <<>>
    /\ calls = <<>>
    /\ thrown = None
    /\ svg = None
    /\ call = None
    /\ ret = None

----------------------------------------------------------------------------
(* A caller validates a config: validateConfig(config) *)

ValidateConfig ==
    /\ pc = "idle"
    /\ \E cfg \in ValidateConfigs :
          /\ config' = cfg
          /\ validation' = validateConfig(cfg)
    /\ pc' = "validated"
    /\ UNCHANGED <<renderer, elements, calls, thrown, svg, call, ret>>

NextValidate == ValidateConfig

SpecValidate == Init /\ [][NextValidate]_vars

----------------------------------------------------------------------------
(* A caller calls an exported function directly *)

Returned ==
    /\ pc' = "geometry"
    /\ UNCHANGED <<config, validation, renderer, elements, calls, thrown, svg>>

CallSegmentAngle ==
    /\ pc = "idle"
    /\ \E n \in GeometryCounts :
          /\ call' = [fn |-> "segmentAngle", args |-> <<n>>]
          /\ ret' = segmentAngle(n)
    /\ Returned

CallFacetAngles ==
    /\ pc = "idle"
    /\ \E a \in GeometryAngles, span \in {Whole(-90), Whole(0), Whole(90), Whole(360)},
          n \in GeometryCounts :
          /\ call' = [fn |-> "facetAngles", args |-> <<a, Add(a, span), n>>]
          /\ ret' = facetAngles(a, Add(a, span), n)
    /\ Returned

CallScoreToRadius ==
    /\ pc = "idle"
    /\ \E score \in GeometryScores, min \in GeometryBounds, max \in GeometryBounds,
          ir \in GeometryRadii, or \in GeometryRadii :
          /\ call' = [fn |-> "scoreToRadius", args |-> <<score, min, max, ir, or>>]
          /\ ret' = scoreToRadius(score, min, max, ir, or)
    /\ Returned

CallRingRadii ==
    /\ pc = "idle"
    /\ \E n \in GeometryCounts, ir \in GeometryRadii, or \in GeometryRadii :
          /\ call' = [fn |-> "ringRadii", args |-> <<n, ir, or>>]
          /\ ret' = ringRadii(n, ir, or)
    /\ Returned

CallPolarToCartesian ==
    /\ pc = "idle"
    /\ \E cx \in GeometryCenters, cy \in GeometryCenters, radius \in GeometryRadii,
          angle \in PolarAngles :
          /\ call' = [fn |-> "polarToCartesian", args |-> <<cx, cy, radius, angle>>]
          /\ ret' = Return(polarToCartesian(cx, cy, radius, angle))
    /\ Returned

CallDescribeArc ==
    /\ pc = "idle"
    /\ \E cx \in GeometryCenters, cy \in GeometryCenters, radius \in ArcRadii,
          start \in ArcStarts, span \in ArcSpans :
          /\ call' = [fn |-> "describeArc",
                      args |-> <<cx, cy, radius, start, Add(start, span)>>]
          /\ ret' = Return(describeArc(cx, cy, radius, start, Add(start, span)))
    /\ Returned

CallSegmentPath ==
    /\ pc = "idle"
    /\ \E cx \in GeometryCenters, cy \in GeometryCenters, ir \in PathInnerRadii,
          or \in PathOuterRadii, start \in ArcStarts, span \in ArcSpans :
          /\ call' = [fn |-> "segmentPath",
                      args |-> <<cx, cy, ir, or, start, Add(start, span)>>]
          /\ ret' = Return(segmentPath(cx, cy, ir, or, start, Add(start, span)))
    /\ Returned

CallLabelOrientation ==
    /\ pc = "idle"
    /\ \E angle \in LabelAngles :
          /\ call' = [fn |-> "labelOrientation", args |-> <<angle>>]
          /\ ret' = Return(labelOrientation(angle))
    /\ Returned

CallCreateConfig ==
    /\ pc = "idle"
    /\ \E partial \in PartialConfigs :
          /\ call' = [fn |-> "createConfig", args |-> <<partial>>]
          /\ ret' = Return(createConfig(partial))
    /\ Returned

NextGeometry ==
    \/ CallCreateConfig
    \/ CallPolarToCartesian
    \/ CallLabelOrientation
    \/ CallDescribeArc
    \/ CallSegmentPath
    \/ CallSegmentAngle
    \/ CallFacetAngles
    \/ CallScoreToRadius
    \/ CallRingRadii

SpecGeometry == Init /\ [][NextGeometry]_vars

----------------------------------------------------------------------------
(* renderers/svg.js: what each private method of SVGRenderer computes.     *)
(* A method's result is the group it returns, the guarded geometry calls   *)
(* it made in order, and the error the first failing call threw, if any.   *)

CallRecord(fn, args, result) ==
    [fn |-> fn, args |-> args, threw |-> result.threw,
     message |-> IF result.threw THEN result.message ELSE ""]

\* index of the first call that threw, 0 if none did
FirstThrow(cs) ==
    LET bad == {i \in 1..Len(cs) : cs[i].threw}
    IN  IF bad = {} THEN 0 ELSE CHOOSE i \in bad : \A j \in bad : i <= j

\* the outcome of a method: `cs` the calls it makes if none throws, `group` its result
Outcome(cs, group) ==
    LET ft == FirstThrow(cs)
    IN  IF ft = 0
        THEN [threw |-> FALSE, message |-> "", calls |-> cs, pushed |-> <<group>>]
        ELSE [threw |-> TRUE, message |-> cs[ft].message,
              calls |-> SubSeq(cs, 1, ft), pushed |-> <<>>]

\* a method that is not called: nothing is pushed
Skipped == [threw |-> FALSE, message |-> "", calls |-> <<>>, pushed |-> <<>>]

\* mutant: the windows are counted from one, startAngle + (i + 1) * segAngle
SegStartFromOne(this, segAngle, i) ==
    Add(this.config.startAngle, Mul(Whole(i + 1), segAngle))

\* startAngle + i * segAngle
SegStart(this, segAngle, i) == Add(this.config.startAngle, Mul(Whole(i), segAngle))

\* mutant: a facet is filled when its score is truthy, `if (!facet.score) return`
ScoredFacetsTruthy(facets) ==
    SelectSeq([j \in 1..Len(facets) |-> j - 1], LAMBDA i : Truthy(facets[i + 1].score))

\* the indices 0..n-1 of the facets that carry a score
ScoredFacets(facets) ==
    SelectSeq([j \in 1..Len(facets) |-> j - 1],
              LAMBDA i : ~(facets[i + 1].score.t = "undefined"
                           \/ facets[i + 1].score.t = "null"))

renderBackground(this) ==
    LET viewSize == Add(this.config.size, Mul(this.padding, Whole(2)))
    IN  Outcome(<<>>,
            [class |-> "background",
             items |-> << [kind |-> "rect", x |-> Sub(Whole(0), this.padding),
                           y |-> Sub(Whole(0), this.padding),
                           width |-> viewSize, height |-> viewSize,
                           fill |-> this.config.style.backgroundColor] >>])

renderSegmentBackgrounds(this) ==
    LET segments == this.config.segments
        center == this.config.center
        sa == segmentAngle(Whole(Len(segments)))
        cs == << CallRecord("segmentAngle", <<Whole(Len(segments))>>, sa) >>
        items == [k \in 1..Len(segments) |->
                    LET sStart == SegStart(this, sa.value, k - 1)
                        sEnd == Add(sStart, sa.value)
                    IN  [kind |-> "path", seg |-> k - 1,
                         innerRadius |-> center.radius, outerRadius |-> this.outerRadius,
                         startAngle |-> sStart, endAngle |-> sEnd]]
    IN  Outcome(cs, [class |-> "segment-backgrounds",
                     items |-> IF sa.threw THEN <<>> ELSE items])

\* scoreToRadius as renderScoreFills calls it for facet i of a segment
FillRadius(this, facet) ==
    scoreToRadius(facet.score.v, this.config.scale.min, this.config.scale.max,
                  this.config.center.radius, this.outerRadius)

renderScoreFills(this) ==
    LET segments == this.config.segments
        center == this.config.center
        scale == this.config.scale
        sa == segmentAngle(Whole(Len(segments)))
        Fa(k) == LET segStart == SegStart(this, sa.value, k - 1)
                 IN  facetAngles(segStart, Add(segStart, sa.value),
                                 Whole(Len(segments[k].facets)))
        FaArgs(k) == LET segStart == SegStart(this, sa.value, k - 1)
                     IN  <<segStart, Add(segStart, sa.value),
                           Whole(Len(segments[k].facets))>>
        SegCalls(k) ==
            << CallRecord("facetAngles", FaArgs(k), Fa(k)) >> \o
            (IF Fa(k).threw THEN <<>>
             ELSE LET scored == ScoredFacets(segments[k].facets)
                  IN  [n \in 1..Len(scored) |->
                         LET facet == segments[k].facets[scored[n] + 1]
                         IN  CallRecord("scoreToRadius",
                                 <<facet.score.v, scale.min, scale.max,
                                   center.radius, this.outerRadius>>,
                                 FillRadius(this, facet))])
        SegItems(k) ==
            LET scored == ScoredFacets(segments[k].facets)
            IN  [n \in 1..Len(scored) |->
                   LET facet == segments[k].facets[scored[n] + 1]
                       data == Fa(k).value[scored[n] + 1]
                   IN  [kind |-> "path", seg |-> k - 1, facet |-> scored[n],
                        innerRadius |-> center.radius,
                        outerRadius |-> FillRadius(this, facet).value,
                        startAngle |-> data.startAngle, endAngle |-> data.endAngle]]
        cs == << CallRecord("segmentAngle", <<Whole(Len(segments))>>, sa) >> \o
              (IF sa.threw THEN <<>>
               ELSE Flatten([k \in 1..Len(segments) |-> SegCalls(k)]))
    IN  Outcome(cs, [class |-> "score-fills",
                     items |-> IF FirstThrow(cs) # 0 THEN <<>>
                               ELSE Flatten([k \in 1..Len(segments) |-> SegItems(k)])])

renderSegmentDividers(this) ==
    LET segments == this.config.segments
        sa == segmentAngle(Whole(Len(segments)))
        cs == << CallRecord("segmentAngle", <<Whole(Len(segments))>>, sa) >>
        items == [k \in 1..Len(segments) |->
                    [kind |-> "line", seg |-> k - 1,
                     angle |-> SegStart(this, sa.value, k - 1),
                     innerRadius |-> this.config.center.radius,
                     outerRadius |-> this.outerRadius]]
    IN  Outcome(cs, [class |-> "segment-dividers",
                     items |-> IF sa.threw THEN <<>> ELSE items])

renderFacetDividers(this) ==
    LET segments == this.config.segments
        style == this.config.style
        sa == segmentAngle(Whole(Len(segments)))
        FaArgs(k) == LET segStart == SegStart(this, sa.value, k - 1)
                     IN  <<segStart, Add(segStart, sa.value),
                           Whole(Len(segments[k].facets))>>
        Fa(k) == facetAngles(FaArgs(k)[1], FaArgs(k)[2], FaArgs(k)[3])
        showPoints == Truthy(style.showFacetPoints) /\ style.facetPointStyle # Str("none")
        SegItems(k) ==
            [n \in 1..(Len(Fa(k).value) - 1) |->
                [kind |-> "line", seg |-> k - 1, facet |-> n,
                 angle |-> Fa(k).value[n + 1].startAngle,
                 innerRadius |-> this.config.center.radius,
                 outerRadius |-> this.outerRadius]] \o
            (IF showPoints
             THEN [n \in 1..Len(Fa(k).value) |->
                     [kind |-> "circle", seg |-> k - 1, facet |-> n - 1,
                      angle |-> Fa(k).value[n].midAngle,
                      radius |-> Sub(this.outerRadius, Whole(20)),
                      r |-> IF style.facetPointStyle = Str("circle") THEN 6 ELSE 3]]
             ELSE <<>>)
        cs == << CallRecord("segmentAngle", <<Whole(Len(segments))>>, sa) >> \o
              (IF sa.threw THEN <<>>
               ELSE [k \in 1..Len(segments) |->
                        CallRecord("facetAngles", FaArgs(k), Fa(k))])
    IN  Outcome(cs, [class |-> "facet-dividers",
                     items |-> IF FirstThrow(cs) # 0 THEN <<>>
                               ELSE Flatten([k \in 1..Len(segments) |-> SegItems(k)])])

\* Math.floor(Infinity), the font size when the divisor is 0
Infinity == [t |-> "infinity"]

\* Math.floor(availableWidth / (maxLineLength * 0.6)), availableWidth > 0
HubFontSize(availableWidth, maxLineLength) ==
    IF maxLineLength = 0 THEN Infinity
    ELSE Num(Whole(Floor(Div(availableWidth, Mul(Whole(maxLineLength), Rat(3, 5))))))

\* center.label.split('&').map(s => s.trim())
HubLines(label) ==
    LET parts == Split(label, "&") IN [i \in 1..Len(parts) |-> Trim(parts[i])]

\* the length each line is counted with: the second of several lines gets 2 for "& "
HubLineLengths(lines) ==
    [idx \in 1..Len(lines) |->
        Len(lines[idx]) + (IF Len(lines) > 1 /\ idx = 2 THEN 2 ELSE 0)]

renderCenterHub(this) ==
    LET center == this.config.center
        lines == HubLines(center.label)
        availableWidth == Mul(center.radius, Rat(8, 5))
        maxLineLength == MaxOf(HubLineLengths(lines))
        scaledFontSize == HubFontSize(availableWidth, maxLineLength)
        texts == IF Len(lines) = 1
                 THEN << [kind |-> "text", text |-> center.label,
                          fontSize |-> scaledFontSize] >>
                 ELSE [i \in 1..Len(lines) |->
                         [kind |-> "text",
                          text |-> IF i = 2 THEN <<"&", " ">> \o lines[i] ELSE lines[i],
                          fontSize |-> scaledFontSize]]
    IN  IF center.visible = Bool(FALSE)
        THEN Outcome(<<>>, [class |-> "", items |-> <<>>])
        ELSE Outcome(<<>>,
                [class |-> "center-hub",
                 items |-> << [kind |-> "circle", radius |-> center.radius] >> \o texts])

\* mutant: the flip range is open at 270, as in labelOrientation
NeedsFlipBelow270(normalizedSegMid) ==
    Gt(normalizedSegMid, Whole(90)) /\ Lt(normalizedSegMid, Whole(270))

\* normalizedSegMid > 90 && normalizedSegMid <= 270
NeedsFlip(normalizedSegMid) ==
    Gt(normalizedSegMid, Whole(90)) /\ Le(normalizedSegMid, Whole(270))

renderFacetLabels(this) ==
    LET segments == this.config.segments
        sa == segmentAngle(Whole(Len(segments)))
        labelRadius == Sub(this.outerRadius, Whole(20))
        FaArgs(k) == LET segStart == SegStart(this, sa.value, k - 1)
                     IN  <<segStart, Add(segStart, sa.value),
                           Whole(Len(segments[k].facets))>>
        Fa(k) == facetAngles(FaArgs(k)[1], FaArgs(k)[2], FaArgs(k)[3])
        SegItems(k) ==
            LET segMid == Div(Add(FaArgs(k)[1], FaArgs(k)[2]), Whole(2))
                normalizedSegMid == NormalizeAngle(segMid)
                needsFlip == NeedsFlip(normalizedSegMid)
                rotationOffset == IF needsFlip THEN Whole(180) ELSE Whole(0)
                isTopHalf == Le(normalizedSegMid, Whole(90))
                             \/ Gt(normalizedSegMid, Whole(270))
                anchor == IF isTopHalf THEN "end" ELSE "start"
            IN  [n \in 1..Len(segments[k].facets) |->
                   [kind |-> "text", seg |-> k - 1, facet |-> n - 1,
                    anchor |-> anchor,
                    rotation |-> Add(Fa(k).value[n].midAngle, rotationOffset),
                    radius |-> labelRadius, angle |-> Fa(k).value[n].midAngle]]
        cs == << CallRecord("segmentAngle", <<Whole(Len(segments))>>, sa) >> \o
              (IF sa.threw THEN <<>>
               ELSE [k \in 1..Len(segments) |->
                        CallRecord("facetAngles", FaArgs(k), Fa(k))])
    IN  Outcome(cs, [class |-> "facet-labels",
                     items |-> IF FirstThrow(cs) # 0 THEN <<>>
                               ELSE Flatten([k \in 1..Len(segments) |-> SegItems(k)])])

\* mutant: the bounds 15 and 165 themselves are clockwise
UseClockwiseAtBounds(normalizedMid) ==
    Le(normalizedMid, Whole(15)) \/ Ge(normalizedMid, Whole(165))

\* normalizedMid < 15 || normalizedMid > 165
UseClockwise(normalizedMid) ==
    Lt(normalizedMid, Whole(15)) \/ Gt(normalizedMid, Whole(165))

\* Math.PI, as the fraction 355/113 (3.1415929...)
MathPI == Rat(355, 113)

\* mutant: the font is always scaled by arcLength / estTextWidth
SegmentFontSizeAlwaysScaled(baseFontSize, arcLength, estTextWidth) ==
    Whole(Floor(Mul(baseFontSize, Div(arcLength, estTextWidth))))

\* estTextWidth > arcLength ? Math.floor(baseFontSize * (arcLength / estTextWidth))
\*                           : baseFontSize
SegmentFontSize(baseFontSize, arcLength, estTextWidth) ==
    IF Gt(estTextWidth, arcLength)
    THEN Whole(Floor(Mul(baseFontSize, Div(arcLength, estTextWidth))))
    ELSE baseFontSize

renderSegmentLabels(this) ==
    LET segments == this.config.segments
        style == this.config.style
        sa == segmentAngle(Whole(Len(segments)))
        cs == << CallRecord("segmentAngle", <<Whole(Len(segments))>>, sa) >>
        baseFontSize == IF Truthy(style.segmentFontSize)
                        THEN style.segmentFontSize.v ELSE Whole(28)
        phi == Rat(1618, 1000)
        arcThickness == Add(Mul(baseFontSize, phi), baseFontSize)
        dividerWidth == IF Truthy(style.segmentDividerWidth)
                        THEN style.segmentDividerWidth.v ELSE Whole(4)
        innerLabelRadius == Add(this.outerRadius, Div(dividerWidth, Whole(2)))
        outerLabelRadius == Add(innerLabelRadius, arcThickness)
        textRadius == Add(innerLabelRadius, Div(arcThickness, Whole(2)))
        arcLength == Mul(Mul(textRadius, Sub(sa.value, Whole(6))), Div(MathPI, Whole(180)))
        maxNameLength == MaxOf([k \in 1..Len(segments) |-> Len(segments[k].name)])
        estTextWidth == Mul(Mul(Whole(maxNameLength + 1), baseFontSize), Rat(3, 5))
        scaledFontSize == SegmentFontSize(baseFontSize, arcLength, estTextWidth)
        items == [k \in 1..Len(segments) |->
                    LET segStart == SegStart(this, sa.value, k - 1)
                        segEnd == Add(segStart, sa.value)
                        midAngle == Div(Add(segStart, segEnd), Whole(2))
                        normalizedMid == NormalizeAngle(midAngle)
                        useClockwise == UseClockwise(normalizedMid)
                    IN  [kind |-> "segment-label", seg |-> k - 1,
                         innerRadius |-> innerLabelRadius,
                         outerRadius |-> outerLabelRadius,
                         startAngle |-> segStart, endAngle |-> segEnd,
                         textRadius |-> textRadius,
                         name |-> segments[k].name,
                         fontSize |-> scaledFontSize,
                         clockwise |-> useClockwise,
                         divider |-> Truthy(style.showSegmentDividers)]]
        \* <defs>, ringDivider, then the three groups, in the order of the returned string
        parts == <<"defs">>
                 \o (IF Truthy(style.showSegmentDividers) THEN <<"ring-divider">> ELSE <<>>)
                 \o <<"segment-label-backgrounds", "segment-label-dividers",
                      "segment-labels">>
    IN  Outcome(cs, [class |-> "segment-labels",
                     ringDivider |-> Truthy(style.showSegmentDividers),
                     parts |-> parts,
                     items |-> IF sa.threw THEN <<>> ELSE items])

renderRings(this) ==
    LET scale == this.config.scale
        center == this.config.center
        rr == ringRadii(scale.rings, center.radius, this.outerRadius)
        cs == << CallRecord("ringRadii",
                            <<scale.rings, center.radius, this.outerRadius>>, rr) >>
    IN  Outcome(cs, [class |-> "rings",
                     items |-> IF rr.threw THEN <<>>
                               ELSE [n \in 1..(Len(rr.value) - 1) |->
                                       [kind |-> "circle", r |-> rr.value[n + 1]]]])

renderScoreLabels(this) ==
    LET scale == this.config.scale
        center == this.config.center
        ringStep == Div(Sub(this.outerRadius, center.radius), scale.rings)
    IN  Outcome(<<>>,
            [class |-> "score-labels",
             items |-> [n \in 1..Ceil(scale.rings) |->
                          [kind |-> "text",
                           label |-> Add(scale.min, Whole(n - 1)),
                           radius |-> Add(center.radius,
                                          Mul(Add(Whole(n - 1), Rat(1, 2)), ringStep))]]])

wrapSVG(this, content) ==
    LET viewSize == Add(this.config.size, Mul(this.padding, Whole(2)))
    IN  [t |-> "svg",
         viewBox |-> <<Sub(Whole(0), this.padding), Sub(Whole(0), this.padding),
                       viewSize, viewSize>>,
         width |-> this.config.size, height |-> this.config.size,
         content |-> content]

----------------------------------------------------------------------------
(* renderers/svg.js: new SVGRenderer(config), then render() statement by   *)
(* statement.  renderDiagram(config) is the one followed by the other.     *)

\* mutant: the constructor does not look at the validation result
ConstructorNeverRejects(v) == FALSE

\* if (!validation.valid) throw
ConstructorRejects(v) == ~v.valid

Construct ==
    /\ pc = "idle"
    /\ \E cfg \in RenderConfigs :
          LET v == validateConfig(cfg)
          IN  /\ config' = cfg
              /\ validation' = v
              /\ IF ConstructorRejects(v)
                 THEN /\ thrown' = [message |-> "Invalid diagram configuration",
                                    errors |-> v.errors]
                      /\ renderer' = None
                      /\ pc' = "threw"
                 ELSE /\ thrown' = thrown
                      /\ renderer' = [config |-> cfg,
                                      padding |-> Whole(70),
                                      cx |-> Div(cfg.size, Whole(2)),
                                      cy |-> Div(cfg.size, Whole(2)),
                                      outerRadius |-> ComputeOuterRadius(cfg.size)]
                      /\ pc' = "constructed"
    /\ UNCHANGED <<elements, calls, svg, call, ret>>

\* mutant: the method's group is put in front of the elements
StatementUnshifting(next, outcome) ==
    /\ calls' = calls \o outcome.calls
    /\ IF outcome.threw
       THEN /\ pc' = "threw"
            /\ thrown' = [message |-> outcome.message]
            /\ elements' = elements
       ELSE /\ pc' = next
            /\ thrown' = thrown
            /\ elements' = outcome.pushed \o elements
    /\ UNCHANGED <<config, validation, renderer, svg, call, ret>>

\* one statement of render(): the method's calls are made, and its group is
\* pushed unless a call threw, which ends render()
Statement(next, outcome) ==
    /\ calls' = calls \o outcome.calls
    /\ IF outcome.threw
       THEN /\ pc' = "threw"
            /\ thrown' = [message |-> outcome.message]
            /\ elements' = elements
       ELSE /\ pc' = next
            /\ thrown' = thrown
            /\ elements' = elements \o outcome.pushed
    /\ UNCHANGED <<config, validation, renderer, svg, call, ret>>

RenderBackground ==
    /\ pc = "constructed"
    /\ Statement("segmentBackgrounds",
                 IF Truthy(renderer.config.style.backgroundColor)
                 THEN renderBackground(renderer) ELSE Skipped)

RenderSegmentBackgrounds ==
    /\ pc = "segmentBackgrounds"
    /\ Statement("scoreFills", renderSegmentBackgrounds(renderer))

RenderScoreFills ==
    /\ pc = "scoreFills"
    /\ Statement("segmentDividers", renderScoreFills(renderer))

RenderSegmentDividers ==
    /\ pc = "segmentDividers"
    /\ Statement("facetDividers",
                 IF Truthy(renderer.config.style.showSegmentDividers)
                 THEN renderSegmentDividers(renderer) ELSE Skipped)

RenderFacetDividers ==
    /\ pc = "facetDividers"
    /\ Statement("centerHub", renderFacetDividers(renderer))

RenderCenterHub ==
    /\ pc = "centerHub"
    /\ Statement("facetLabels", renderCenterHub(renderer))

RenderFacetLabels ==
    /\ pc = "facetLabels"
    /\ Statement("segmentLabels", renderFacetLabels(renderer))

RenderSegmentLabels ==
    /\ pc = "segmentLabels"
    /\ Statement("rings", renderSegmentLabels(renderer))

\* mutant: rings are drawn only when showRings is truthy
ShowsRingsWhenTruthy(style) == Truthy(style.showRings)

\* this.config.style.showRings !== false
ShowsRings(style) == style.showRings # Bool(FALSE)

RenderRings ==
    /\ pc = "rings"
    /\ Statement("scoreLabels",
                 IF ShowsRings(renderer.config.style)
                 THEN renderRings(renderer) ELSE Skipped)

RenderScoreLabels ==
    /\ pc = "scoreLabels"
    /\ Statement("wrap",
                 IF Truthy(renderer.config.style.showScoreLabels)
                 THEN renderScoreLabels(renderer) ELSE Skipped)

WrapSVG ==
    /\ pc = "wrap"
    /\ svg' = wrapSVG(renderer, elements)
    /\ pc' = "done"
    /\ UNCHANGED <<config, validation, renderer, elements, calls, thrown, call, ret>>

Next ==
    \/ Construct
    \/ RenderBackground
    \/ RenderSegmentBackgrounds
    \/ RenderScoreFills
    \/ RenderSegmentDividers
    \/ RenderFacetDividers
    \/ RenderCenterHub
    \/ RenderFacetLabels
    \/ RenderSegmentLabels
    \/ RenderRings
    \/ RenderScoreLabels
    \/ WrapSVG

Spec == Init /\ [][Next]_vars

\* a caller may also call the geometry functions directly
NextAll == Next \/ NextGeometry

SpecAll == Init /\ [][NextAll]_vars

----------------------------------------------------------------------------
(* The invariants of the data model, read off a config *)

SizePositive(cfg) == cfg.size[1] > 0

\* 0 < center.radius < (size / 2) * 0.9, i.e. 20 * radius < 9 * size
RadiusInBounds(cfg) ==
    /\ cfg.center.t = "object"
    /\ cfg.center.radius[1] > 0
    /\ 20 * cfg.center.radius[1] * cfg.size[2] < 9 * cfg.size[1] * cfg.center.radius[2]

ScaleMinLeMax(cfg) == cfg.scale.t = "object" /\ Le(cfg.scale.min, cfg.scale.max)
ScaleRingsPositive(cfg) == cfg.scale.t = "object" /\ cfg.scale.rings[1] > 0

SegmentsNonEmpty(cfg) == Len(cfg.segments) > 0
FacetsNonEmpty(cfg, i) == Len(cfg.segments[i].facets) > 0

ScoreInScale(cfg, i, j) ==
    LET score == cfg.segments[i].facets[j].score
    IN  score.t = "number" =>
            /\ cfg.scale.t = "object"
            /\ Le(cfg.scale.min, score.v)
            /\ Le(score.v, cfg.scale.max)

FiveInvariants(cfg) ==
    /\ SizePositive(cfg)
    /\ RadiusInBounds(cfg)
    /\ ScaleMinLeMax(cfg) /\ ScaleRingsPositive(cfg)
    /\ SegmentsNonEmpty(cfg)
    /\ \A i \in 1..Len(cfg.segments) : FacetsNonEmpty(cfg, i)
    /\ \A i \in 1..Len(cfg.segments) :
          \A j \in 1..Len(cfg.segments[i].facets) : ScoreInScale(cfg, i, j)

HasError(text) ==
    \E n \in 1..Len(validation.errors) : validation.errors[n].text = text

----------------------------------------------------------------------------
(* C1 *)

\* C1: validateConfig(config) returns valid = true if and only if all five
\* invariants of the data model hold: size > 0; 0 < center.radius <
\* (size/2)*0.9; scale.min <= scale.max and scale.rings > 0; segments and
\* every segment's facets non-empty; every present score in
\* [scale.min, scale.max], a facet without a score being accepted.
C1_ValidIffInvariants ==
    pc = "validated" => (validation.valid <=> FiveInvariants(config))

\* an accepted config with an unscored facet (undefined or null) and a score
\* exactly at scale.max
C1_Witness ==
    /\ pc = "validated"
    /\ validation.valid
    /\ \E i \in 1..Len(config.segments) :
          \E j, k \in 1..Len(config.segments[i].facets) :
              /\ config.segments[i].facets[j].score.t \in {"undefined", "null"}
              /\ config.segments[i].facets[k].score = Num(config.scale.max)

----------------------------------------------------------------------------
(* C2 *)

\* C2: validateConfig accumulates all violations: for every invariant of the
\* data model the config violates (and for a missing center or scale object)
\* the errors list holds a message for that violation, and valid is true
\* exactly when errors is empty.
C2_EveryViolationReported ==
    pc = "validated" =>
        /\ validation.valid <=> (Len(validation.errors) = 0)
        /\ ~SizePositive(config) => HasError("size must be greater than 0")
        /\ config.center.t # "object" => HasError("center configuration is required")
        /\ ~RadiusInBounds(config) =>
              \/ HasError("center configuration is required")
              \/ HasError("center.radius must be greater than 0")
              \/ HasError("center.radius must be less than outer radius")
        /\ config.scale.t # "object" => HasError("scale configuration is required")
        /\ (config.scale.t = "object" /\ ~ScaleMinLeMax(config)) =>
              HasError("scale.min must be less than or equal to scale.max")
        /\ (config.scale.t = "object" /\ ~ScaleRingsPositive(config)) =>
              HasError("scale.rings must be greater than 0")
        /\ ~SegmentsNonEmpty(config) =>
              HasError("segments array must contain at least one segment")
        /\ \A i \in 1..Len(config.segments) :
              ~FacetsNonEmpty(config, i) =>
                  \E n \in 1..Len(validation.errors) :
                      /\ validation.errors[n].text = "segment must contain at least one facet"
                      /\ validation.errors[n].segIndex = i - 1
        /\ \A i \in 1..Len(config.segments) :
              \A j \in 1..Len(config.segments[i].facets) :
                  (config.scale.t = "object" /\ ~ScoreInScale(config, i, j)) =>
                      \E n \in 1..Len(validation.errors) :
                          /\ validation.errors[n].text =
                                 "score must be between scale.min and scale.max"
                          /\ validation.errors[n].segIndex = i - 1
                          /\ validation.errors[n].facetIndex = j - 1

----------------------------------------------------------------------------
(* C3 *)

Invalid(cfg) == ~validateConfig(cfg).valid

\* C3: the composer validates before any geometry: constructing SVGRenderer
\* with a config that validateConfig rejects throws 'Invalid diagram
\* configuration' listing every accumulated validation error; no geometry
\* function is invoked, no renderer exists to render with, and no SVG, not
\* even a partial list of elements, is ever produced for that config.
C3_InvalidConfigThrowsBeforeGeometry ==
    (pc # "idle" /\ Invalid(config)) =>
        /\ pc = "threw"
        /\ thrown.message = "Invalid diagram configuration"
        /\ thrown.errors = validateConfig(config).errors
        /\ Len(thrown.errors) > 0
        /\ renderer = None
        /\ calls = <<>>
        /\ elements = <<>>
        /\ svg = None

\* a config breaking three invariants at once was refused with all three
\* messages and nothing was computed
C3_Witness ==
    /\ pc = "threw"
    /\ Invalid(config)
    /\ Len(thrown.errors) >= 3
    /\ calls = <<>>
    /\ svg = None

----------------------------------------------------------------------------
(* C4 *)

\* the precondition of a guarded geometry function, on the arguments of a call
Precondition(c) ==
    CASE c.fn = "segmentAngle" -> c.args[1][1] > 0
      [] c.fn = "facetAngles" -> c.args[3][1] > 0
      [] c.fn = "scoreToRadius" -> Le(c.args[2], c.args[3]) /\ Lt(c.args[4], c.args[5])
      [] c.fn = "ringRadii" -> c.args[1][1] > 0 /\ Lt(c.args[2], c.args[3])

CalledFn(fn) == \E n \in 1..Len(calls) : calls[n].fn = fn

\* C4: for every config validateConfig accepts, a render() pass never
\* triggers a domain error: every call the renderer makes to segmentAngle,
\* facetAngles, scoreToRadius and ringRadii meets that function's
\* precondition, whatever the style toggles are.
C4_ValidConfigNeverThrows ==
    (pc # "idle" /\ ~Invalid(config)) =>
        /\ pc # "threw"
        /\ thrown = None
        /\ \A n \in 1..Len(calls) : Precondition(calls[n]) /\ ~calls[n].threw

\* a finished render() of a valid config that called all four functions
C4_Witness ==
    /\ pc = "done"
    /\ ~Invalid(config)
    /\ CalledFn("segmentAngle") /\ CalledFn("facetAngles")
    /\ CalledFn("scoreToRadius") /\ CalledFn("ringRadii")
    /\ Len(config.segments) > 1

----------------------------------------------------------------------------
(* C5 *)

\* {size: 800, startAngle: -90, center.radius: 60, scale: {1, 5, 5},
\*  one segment with one facet of score 3}
IsEndToEndConfig(cfg) ==
    /\ cfg.size = Whole(800)
    /\ cfg.startAngle = Whole(-90)
    /\ cfg.center.radius = Whole(60)
    /\ cfg.scale = Scale(Whole(1), Whole(5), Whole(5))
    /\ cfg.segments = << [name |-> ShortName, facets |-> << [score |-> Num(Whole(3))] >>] >>

\* the groups render() has pushed with this class
Groups(class) ==
    {elements[n] : n \in {m \in 1..Len(elements) : elements[m].class = class}}

\* C5: the end-to-end config validates, its outer radius is 360, and its
\* single facet's fill radius is 60 + (3/5) * (360 - 60) = 240.
C5_EndToEnd ==
    (pc # "idle" /\ IsEndToEndConfig(config)) =>
        /\ validation.valid
        /\ pc # "threw"
        /\ renderer.outerRadius = Whole(360)
        /\ \A g \in Groups("score-fills") :
              /\ Len(g.items) = 1
              /\ g.items[1].innerRadius = Whole(60)
              /\ g.items[1].outerRadius = Whole(240)
        /\ pc = "done" => Groups("score-fills") # {}

\* the end-to-end config was rendered to the end, its fill emitted
C5_Witness ==
    /\ pc = "done"
    /\ IsEndToEndConfig(config)
    /\ \E g \in Groups("score-fills") : Len(g.items) = 1

----------------------------------------------------------------------------
(* C6 *)

\* a direct call scoreToRadius(score, min, max, ir, or) within its precondition
ScoreCall ==
    /\ pc = "geometry"
    /\ call.fn = "scoreToRadius"
    /\ Le(call.args[2], call.args[3])
    /\ Lt(call.args[4], call.args[5])

\* the score clamped into [min, max], by cases
RefClamp(score, min, max) ==
    IF Lt(score, min) THEN min ELSE IF Gt(score, max) THEN max ELSE score

\* C6: for minScore <= maxScore and innerRadius < outerRadius, scoreToRadius
\* equals the reference: or when min == max; otherwise
\* ir + ((clamp(score) - min + 1) / (max - min + 1)) * (or - ir).  So
\* score = min gives ir + (or - ir) / levels, score = max gives exactly or,
\* and a score below min (above max) gives what min (max) gives.
C6_ScoreToRadiusReference ==
    ScoreCall =>
        LET score == call.args[1]
            min == call.args[2]
            max == call.args[3]
            ir == call.args[4]
            or == call.args[5]
            levels == Add(Sub(max, min), Whole(1))
        IN  /\ ~ret.threw
            /\ IF min = max
               THEN ret.value = or
               ELSE Mul(Sub(ret.value, ir), levels)
                        = Mul(Add(Sub(RefClamp(score, min, max), min), Whole(1)),
                              Sub(or, ir))
            /\ (min # max /\ Le(score, min)) =>
                   ret.value = Add(ir, Div(Sub(or, ir), levels))
            /\ Ge(score, max) => ret.value = or

\* a score above the scale's maximum was clamped: it got the outer radius
C6_Witness ==
    /\ ScoreCall
    /\ Lt(call.args[2], call.args[3])
    /\ Gt(call.args[1], call.args[3])
    /\ ret.value = call.args[5]

----------------------------------------------------------------------------
(* C7 *)

\* C7: the minimum score never collapses to the hub: for every score, in or
\* out of range, every minScore <= maxScore and every innerRadius <
\* outerRadius, innerRadius < scoreToRadius(...) <= outerRadius; so every
\* score fill of a render is an annulus of non-zero thickness from
\* center.radius that stays inside the outer radius.
C7_RadiusAboveHub ==
    /\ ScoreCall =>
          /\ ~ret.threw
          /\ Lt(call.args[4], ret.value)
          /\ Le(ret.value, call.args[5])
    /\ \A g \in Groups("score-fills") :
          \A n \in 1..Len(g.items) :
              /\ g.items[n].innerRadius = config.center.radius
              /\ Lt(g.items[n].innerRadius, g.items[n].outerRadius)
              /\ Le(g.items[n].outerRadius, renderer.outerRadius)

\* a score below the scale's minimum still got a radius above the hub
C7_Witness ==
    /\ ScoreCall
    /\ Lt(call.args[2], call.args[3])
    /\ Lt(call.args[1], call.args[2])
    /\ Lt(call.args[4], ret.value)
    /\ Lt(ret.value, call.args[5])

----------------------------------------------------------------------------
(* C8 *)

\* r is one of the radii ir + k * (or - ir) / levels, k an integer in 1..levels
OnLevel(r, ir, or, levels) ==
    \E k \in 1..Floor(levels) :
        Mul(Sub(r, ir), levels) = Mul(Whole(k), Sub(or, ir))

\* a direct call of scoreToRadius with the score inside the scale
ScoreCallInRange ==
    /\ ScoreCall
    /\ Le(call.args[2], call.args[1])
    /\ Le(call.args[1], call.args[3])

\* C8 as claimed: for every score in [minScore, maxScore], non-integer ones
\* such as 4.2 included, the radius is one of the `levels` radii
\* ir + k * (or - ir) / levels with k an integer in 1..levels
\* (read on scales with integer bounds, where levels is an integer).
C8_EveryScoreOnALevel ==
    (ScoreCallInRange /\ IsInteger(call.args[2]) /\ IsInteger(call.args[3])) =>
        OnLevel(ret.value, call.args[4], call.args[5],
                Add(Sub(call.args[3], call.args[2]), Whole(1)))

\* C8 as amended: for every score in [minScore, maxScore] the radius is
\* ir + k * (or - ir) / levels with k = score - minScore + 1; it is one of
\* the `levels` radii exactly when score - minScore is an integer, and a
\* score with a fractional offset is mapped in proportion, off every level.
C8_LevelsOnlyForIntegerOffsets ==
    ScoreCallInRange =>
        LET score == call.args[1]
            min == call.args[2]
            max == call.args[3]
            ir == call.args[4]
            or == call.args[5]
            levels == Add(Sub(max, min), Whole(1))
            k == Add(Sub(score, min), Whole(1))
        IN  /\ Mul(Sub(ret.value, ir), levels) = Mul(k, Sub(or, ir))
            /\ IsInteger(Sub(score, min)) =>
                  /\ IsInteger(k) /\ Le(Whole(1), k) /\ Le(k, levels)
                  /\ IsInteger(levels) => OnLevel(ret.value, ir, or, levels)
            /\ ~IsInteger(Sub(score, min)) => ~OnLevel(ret.value, ir, or, levels)

\* score 5/2 on the scale 1..4 got a radius strictly between levels 2 and 3
C8_Witness ==
    /\ ScoreCallInRange
    /\ call.args[1] = Rat(5, 2)
    /\ call.args[2] = Whole(1) /\ call.args[3] = Whole(4)
    /\ ~OnLevel(ret.value, call.args[4], call.args[5], Whole(4))

----------------------------------------------------------------------------
(* C9 *)

\* the call threw an Error with this message, and returned nothing
ThrewWith(message) ==
    /\ ret.threw
    /\ ret.message = message
    /\ DOMAIN ret = {"threw", "message"}

\* C9: domain errors are fail-fast: segmentAngle(n) with n <= 0,
\* facetAngles(_, _, n) with n <= 0, scoreToRadius with minScore > maxScore
\* or innerRadius >= outerRadius (also when minScore == maxScore) and
\* ringRadii with ringCount <= 0 or innerRadius >= outerRadius each throw
\* the documented error instead of returning a value.
C9_DomainErrorsFailFast ==
    pc = "geometry" =>
        /\ (call.fn = "segmentAngle" /\ Le(call.args[1], Whole(0))) =>
               ThrewWith("segmentCount must be greater than 0")
        /\ (call.fn = "facetAngles" /\ Le(call.args[3], Whole(0))) =>
               ThrewWith("facetCount must be greater than 0")
        /\ (call.fn = "scoreToRadius" /\ Gt(call.args[2], call.args[3])) =>
               ThrewWith("minScore must be less than or equal to maxScore")
        /\ (call.fn = "scoreToRadius" /\ Le(call.args[2], call.args[3])
                /\ Ge(call.args[4], call.args[5])) =>
               ThrewWith("innerRadius must be less than outerRadius")
        /\ (call.fn = "ringRadii" /\ Le(call.args[1], Whole(0))) =>
               ThrewWith("ringCount must be greater than 0")
        /\ (call.fn = "ringRadii" /\ Gt(call.args[1], Whole(0))
                /\ Ge(call.args[2], call.args[3])) =>
               ThrewWith("innerRadius must be less than outerRadius")

\* scoreToRadius on a flat scale (min == max) with innerRadius >= outerRadius threw
C9_Witness ==
    /\ pc = "geometry"
    /\ call.fn = "scoreToRadius"
    /\ call.args[2] = call.args[3]
    /\ Ge(call.args[4], call.args[5])
    /\ ThrewWith("innerRadius must be less than outerRadius")

----------------------------------------------------------------------------
(* C10 *)

\* the sum of the spans endAngle - startAngle of items[1..n]
RECURSIVE SumSpans(_, _)
SumSpans(items, n) ==
    IF n = 0 THEN Whole(0)
    ELSE Add(SumSpans(items, n - 1), Sub(items[n].endAngle, items[n].startAngle))

----------------------------------------------------------------------------
(* C11 *)

----------------------------------------------------------------------------
(* C12 *)

----------------------------------------------------------------------------
(* C13 *)

\* a direct call polarToCartesian(cx, cy, r, angle) at the given angle
PolarCall(angle) ==
    /\ pc = "geometry"
    /\ call.fn = "polarToCartesian"
    /\ call.args[4] = Whole(angle)

\* the coordinate is q up to a residue of at most k * r * delta
Near(coord, q, k, r) ==
    /\ coord.fn = ""
    /\ coord.q = q
    /\ Le(coord.d, Mul(Whole(k), r))
    /\ Le(Mul(Whole(-k), r), coord.d)

----------------------------------------------------------------------------
(* C14 *)

\* C14: describeArc(cx, cy, radius, startAngle, endAngle) emits one move to
\* the start point followed by one arc to the end point at constant radius;
\* the large-arc flag is set exactly when |endAngle - startAngle| > 180 (a
\* span of exactly 180 is a small arc) and the sweep flag exactly when
\* endAngle > startAngle (equal angles and reversed spans sweep
\* counter-clockwise).
C14_DescribeArcFlags ==
    (pc = "geometry" /\ call.fn = "describeArc") =>
        LET cx == call.args[1]
            cy == call.args[2]
            radius == call.args[3]
            startAngle == call.args[4]
            endAngle == call.args[5]
            span == Sub(endAngle, startAngle)
            wide == Gt(span, Whole(180)) \/ Gt(Sub(startAngle, endAngle), Whole(180))
            start == polarToCartesian(cx, cy, radius, startAngle)
            end == polarToCartesian(cx, cy, radius, endAngle)
            d == ret.value
        IN  /\ Len(d) = 2
            /\ d[1].op = "M" /\ d[1].x = start.x /\ d[1].y = start.y
            /\ d[2].op = "A" /\ d[2].x = end.x /\ d[2].y = end.y
            /\ d[2].rx = radius /\ d[2].ry = radius /\ d[2].rotation = 0
            /\ (d[2].largeArc = 1) = wide
            /\ (d[2].largeArc = 0) = ~wide
            /\ (d[2].sweep = 1) = Gt(endAngle, startAngle)
            /\ (d[2].sweep = 0) = Le(endAngle, startAngle)

\* a span of exactly 180 degrees drawn clockwise is a small arc
C14_Witness ==
    /\ pc = "geometry"
    /\ call.fn = "describeArc"
    /\ Sub(call.args[5], call.args[4]) = Whole(180)
    /\ ret.value[2].largeArc = 0
    /\ ret.value[2].sweep = 1

----------------------------------------------------------------------------
(* C15 *)

\* a direct call segmentPath(cx, cy, innerRadius, outerRadius, startAngle, endAngle)
PathCall == pc = "geometry" /\ call.fn = "segmentPath"

\* the arcs of a path, in order
Arcs(d) == SelectSeq(d, LAMBDA c : c.op = "A")

\* C15: in segmentPath, for every startAngle and endAngle, the outer arc
\* (start to end) has its sweep flag set exactly when endAngle > startAngle
\* and its large-arc flag set exactly when |endAngle - startAngle| > 180, and
\* the inner arc (end to start) has the same large-arc flag and the
\* opposite sweep flag of the outer arc.
C15_SegmentPathFlags ==
    PathCall =>
        LET startAngle == call.args[5]
            endAngle == call.args[6]
            wide == Gt(Sub(endAngle, startAngle), Whole(180))
                        \/ Gt(Sub(startAngle, endAngle), Whole(180))
            arcs == Arcs(ret.value)
        IN  /\ Len(arcs) >= 1
            /\ (arcs[1].sweep = 1) = Gt(endAngle, startAngle)
            /\ (arcs[1].largeArc = 1) = wide
            /\ Len(arcs) = 2 =>
                  /\ arcs[2].largeArc = arcs[1].largeArc
                  /\ arcs[2].sweep = 1 - arcs[1].sweep

----------------------------------------------------------------------------
(* C16 *)

\* the points a path visits, in order
Points(d) == SelectSeq(d, LAMBDA c : c.op # "Z")

\* the command reaches the point p
At(c, p) == c.x = p.x /\ c.y = p.y

----------------------------------------------------------------------------
(* C17 *)

\* a direct call labelOrientation(angle)
LabelCall == pc = "geometry" /\ call.fn = "labelOrientation"

\* the rotation reduced modulo 360 into (-180, 180]
Reduced(rotation) ==
    Sub(rotation, Whole(360 * Ceil(Div(Sub(rotation, Whole(180)), Whole(360)))))

\* C17: labelOrientation keeps text upright at every position around the
\* circle: for every input angle the returned rotation, reduced modulo 360
\* into (-180, 180], lies within [-90, 90]; the label is never upside-down.
C17_NeverUpsideDown ==
    LabelCall =>
        /\ Le(Whole(-90), Reduced(ret.value.rotation))
        /\ Le(Reduced(ret.value.rotation), Whole(90))

----------------------------------------------------------------------------
(* C18 *)

\* the angle brought into [0, 360) by whole turns
InTurn(angle) == Sub(angle, Whole(360 * Floor(Div(angle, Whole(360)))))

----------------------------------------------------------------------------
(* C19 *)

\* what render() has emitted so far, in order: each pushed group by its
\* class, the string of renderSegmentLabels by its parts
RECURSIVE EmittedUpTo(_)
EmittedUpTo(n) ==
    IF n = 0 THEN <<>>
    ELSE EmittedUpTo(n - 1)
            \o (IF elements[n].class = "segment-labels" THEN elements[n].parts
                ELSE <<elements[n].class>>)
Emitted == EmittedUpTo(Len(elements))

\* the step of the rendering contract a part belongs to: 1 background shapes,
\* 2 score fills, 3 dividers, 4 hub, 5 labels, 6 grid overlay; 0 draws nothing
ContractStep(part) ==
    CASE part \in {"background", "segment-backgrounds", "segment-label-backgrounds"} -> 1
      [] part = "score-fills" -> 2
      [] part \in {"segment-dividers", "facet-dividers", "ring-divider",
                   "segment-label-dividers"} -> 3
      [] part = "center-hub" -> 4
      [] part \in {"facet-labels", "segment-labels"} -> 5
      [] part \in {"rings", "score-labels"} -> 6
      [] OTHER -> 0

\* the order in which render() emits what it emits
EmitOrder ==
    <<"background", "segment-backgrounds", "score-fills", "segment-dividers",
      "facet-dividers", "center-hub", "facet-labels", "defs", "ring-divider",
      "segment-label-backgrounds", "segment-label-dividers", "segment-labels",
      "rings", "score-labels">>

\* the place of a part in EmitOrder, 0 for none
Place(part) ==
    IF \E k \in 1..Len(EmitOrder) : EmitOrder[k] = part
    THEN CHOOSE k \in 1..Len(EmitOrder) : EmitOrder[k] = part
    ELSE 0

\* C19 as claimed: render() emits the layout back to front: all background
\* shapes first, then all score fills, then all dividers, then the hub, then
\* all labels, then the grid overlay (rings, score labels) last; no
\* background shape or divider is emitted after the hub or after a label.
C19_BackToFront ==
    \A i \in 1..Len(Emitted) : \A j \in (i + 1)..Len(Emitted) :
        (ContractStep(Emitted[i]) # 0 /\ ContractStep(Emitted[j]) # 0) =>
            ContractStep(Emitted[i]) <= ContractStep(Emitted[j])

\* C19 as amended: render() emits in the fixed order background, segment
\* backgrounds, score fills, segment dividers, facet dividers, hub, facet
\* labels, segment labels, rings, score labels, where the segment labels
\* are emitted as the label band's ring divider, background arcs and
\* dividers followed by the label texts.  So the wheel's background shapes,
\* fills and dividers all precede the hub and the grid overlay comes last,
\* but the label band's background arcs and dividers are emitted after the
\* hub and after the facet labels.
C19_FixedEmitOrder ==
    /\ \A i \in 1..Len(Emitted) : \A j \in (i + 1)..Len(Emitted) :
          (Emitted[i] # "" /\ Emitted[j] # "") =>
              /\ Place(Emitted[i]) # 0
              /\ Place(Emitted[i]) < Place(Emitted[j])
    /\ \A j \in 1..Len(Emitted) :
          (\E i \in 1..(j - 1) : ContractStep(Emitted[i]) >= 4) =>
              /\ ContractStep(Emitted[j]) = 2 => FALSE
              /\ ContractStep(Emitted[j]) \in {1, 3} =>
                    Emitted[j] \in {"ring-divider", "segment-label-backgrounds",
                                    "segment-label-dividers"}
    /\ pc \in {"rings", "scoreLabels", "wrap", "done"} =>
          \E j \in 1..Len(Emitted) :
              /\ Emitted[j] = "segment-label-backgrounds"
              /\ \E i \in 1..(j - 1) : Emitted[i] = "facet-labels"
    /\ pc = "done" =>
          /\ svg.content = elements
          /\ \A part \in {"segment-backgrounds", "score-fills", "facet-dividers",
                          "facet-labels", "segment-labels"} :
                \E j \in 1..Len(Emitted) : Emitted[j] = part

\* a finished render with every layer shown: fourteen parts, the label
\* band's background arcs after the hub and the facet labels
C19_Witness ==
    /\ pc = "done"
    /\ Emitted = EmitOrder

----------------------------------------------------------------------------
(* C20 *)

\* a direct call createConfig(partial)
CreateCall == pc = "geometry" /\ call.fn = "createConfig"

\* the partial provides a value for the field
Provides(obj, key) ==
    /\ obj.t = "object"
    /\ key \in DOMAIN obj.v
    /\ obj.v[key].t # "undefined"

\* every key of defaults is in merged, with the value obj provides for it,
\* else the default; every other key obj provides is preserved
MergedOver(merged, defaults, obj) ==
    /\ DOMAIN defaults \subseteq DOMAIN merged
    /\ \A key \in DOMAIN merged :
          IF Provides(obj, key) THEN merged[key] = obj.v[key]
          ELSE key \in DOMAIN defaults /\ merged[key] = defaults[key]

\* C20: createConfig(partial) returns a fully populated config in which
\* every value provided in partial is preserved unchanged and every omitted
\* field takes its default: size 800, startAngle -90, center label 'Core' /
\* radius 60, scale = DEFAULT_SCALE and style = DEFAULT_STYLE, a partial
\* style or scale being merged field by field over the defaults.
C20_CreateConfigDefaults ==
    CreateCall =>
        LET partial == call.args[1]
            c == ret.value
        IN  /\ c.size = (IF partial.size.t # "undefined" THEN partial.size
                         ELSE Num(Whole(800)))
            /\ c.startAngle = (IF partial.startAngle.t # "undefined"
                               THEN partial.startAngle ELSE Num(Whole(-90)))
            /\ c.center.label = (IF Provides(partial.center, "label")
                                 THEN partial.center.v.label ELSE Str("Core"))
            /\ c.center.radius = (IF Provides(partial.center, "radius")
                                  THEN partial.center.v.radius ELSE Num(Whole(60)))
            /\ \A key \in {"color", "visible"} :
                  Provides(partial.center, key) => c.center[key] = partial.center.v[key]
            /\ MergedOver(c.scale, DefaultScale, partial.scale)
            /\ MergedOver(c.style, DefaultStyle, partial.style)
            /\ partial.segments.t # "undefined" => c.segments = partial.segments
            /\ partial.scale.t = "undefined" => c.scale = DefaultScale
            /\ partial.style.t = "undefined" => c.style = DefaultStyle

----------------------------------------------------------------------------
(* C21 *)

\* how many of the pushed elements have this class
Count(class) == Cardinality({n \in 1..Len(elements) : elements[n].class = class})

\* C21: optional layers are emitted exactly when enabled: the output of
\* render() contains the background rect iff style.backgroundColor is set,
\* the segment-dividers group iff style.showSegmentDividers is truthy, the
\* center-hub group iff center.visible is not false, the rings group iff
\* style.showRings is not false, and the score-labels group iff
\* style.showScoreLabels is truthy; toggling one of these does not add or
\* remove any other layer.
C21_OptionalLayers ==
    pc = "done" =>
        LET style == config.style
            On(b) == IF b THEN 1 ELSE 0
        IN  /\ svg.content = elements
            /\ Count("background") = On(Truthy(style.backgroundColor))
            /\ Count("segment-dividers") = On(Truthy(style.showSegmentDividers))
            /\ Count("center-hub") = On(config.center.visible # Bool(FALSE))
            /\ Count("rings") = On(style.showRings # Bool(FALSE))
            /\ Count("score-labels") = On(Truthy(style.showScoreLabels))
            /\ \A class \in {"segment-backgrounds", "score-fills", "facet-dividers",
                             "facet-labels", "segment-labels"} : Count(class) = 1
            /\ \A n \in 1..Len(elements) :
                  elements[n].class \in
                      {"background", "segment-backgrounds", "score-fills",
                       "segment-dividers", "facet-dividers", "center-hub", "",
                       "facet-labels", "segment-labels", "rings", "score-labels"}
            /\ Count("") = On(config.center.visible = Bool(FALSE))

\* a finished render with showRings left undefined and the hub hidden: the
\* rings are there, the hub is not
C21_Witness ==
    /\ pc = "done"
    /\ config.style.showRings = Undefined
    /\ config.center.visible = Bool(FALSE)
    /\ Count("rings") = 1
    /\ Count("center-hub") = 0
    /\ Count("score-labels") = 1
    /\ Count("background") = 0

----------------------------------------------------------------------------
(* C22 *)

\* the one pushed group with this class
TheGroup(class) == CHOOSE g \in Groups(class) : TRUE

\* the facets of the config as <<segment, facet>> pairs, counted from 1
AllFacets ==
    UNION {{<<k, j>> : j \in 1..Len(config.segments[k].facets)} :
              k \in 1..Len(config.segments)}

\* segment order, then facet order
FacetBefore(p, q) == p[1] < q[1] \/ (p[1] = q[1] /\ p[2] < q[2])

\* C22: score fills are produced exactly for scored facets: the number of fill
\* shapes equals the number of facets whose score is present (0 counts as
\* present, undefined and null do not); they appear in segment order then
\* facet order; each spans its facet's [start, end] angles from center.radius
\* to scoreToRadius(score); an unscored facet gets no fill but still its label.
C22_FillsForScoredFacets ==
    Count("facet-labels") = 1 =>
        LET fills == TheGroup("score-fills").items
            labels == TheGroup("facet-labels").items
            segs == config.segments
            Score(p) == segs[p[1]].facets[p[2]].score
            Scored == {p \in AllFacets : Score(p).t \notin {"undefined", "null"}}
            Rank(S, p) == Cardinality({q \in S : FacetBefore(q, p)}) + 1
            segAngle == Div(Whole(360), Whole(Len(segs)))
            FacetSpan(p) == Div(segAngle, Whole(Len(segs[p[1]].facets)))
            FacetStart(p) ==
                Add(Add(config.startAngle, Mul(Whole(p[1] - 1), segAngle)),
                    Mul(Whole(p[2] - 1), FacetSpan(p)))
        IN  /\ Len(fills) = Cardinality(Scored)
            /\ \A p \in Scored :
                  LET fill == fills[Rank(Scored, p)]
                  IN  /\ fill.seg = p[1] - 1
                      /\ fill.facet = p[2] - 1
                      /\ fill.startAngle = FacetStart(p)
                      /\ fill.endAngle = Add(FacetStart(p), FacetSpan(p))
                      /\ fill.innerRadius = config.center.radius
                      /\ fill.outerRadius =
                            scoreToRadius(Score(p).v, config.scale.min, config.scale.max,
                                          config.center.radius, renderer.outerRadius).value
            /\ Len(labels) = Cardinality(AllFacets)
            /\ \A p \in AllFacets :
                  /\ labels[Rank(AllFacets, p)].seg = p[1] - 1
                  /\ labels[Rank(AllFacets, p)].facet = p[2] - 1

\* a finished render of a segment whose facets are scored 0 and null: one
\* fill, for the facet scored 0, and two labels
C22_Witness ==
    /\ pc = "done"
    /\ Len(config.segments) = 1
    /\ config.segments[1].facets = <<[score |-> Num(Whole(0))], [score |-> Null]>>
    /\ Len(TheGroup("score-fills").items) = 1
    /\ TheGroup("score-fills").items[1].facet = 0
    /\ Gt(TheGroup("score-fills").items[1].outerRadius, config.center.radius)
    /\ Len(TheGroup("facet-labels").items) = 2

----------------------------------------------------------------------------
(* C23 *)

\* C23: every facet label's orientation is the Label Orientation Calculator's:
\* for each facet label emitted by render(), the text anchor and the rotation
\* equal labelOrientation(a).textAnchor and labelOrientation(a).rotation for
\* the angle a at which the label is placed, the facet's mid-angle.
C23_FacetLabelsUseLabelOrientation ==
    Count("facet-labels") = 1 =>
        \A n \in 1..Len(TheGroup("facet-labels").items) :
            LET label == TheGroup("facet-labels").items[n]
            IN  /\ label.anchor = labelOrientation(label.angle).textAnchor
                /\ label.rotation = labelOrientation(label.angle).rotation

----------------------------------------------------------------------------
(* C24 *)

\* the mid-angle of a segment label's arc, brought into [0, 360)
LabelMid(label) == InTurn(Div(Add(label.startAngle, label.endAngle), Whole(2)))

----------------------------------------------------------------------------
(* C25 *)

\* the invariant of the data model a message reports: 1 size, 2 center.radius
\* bounds, 3 scale, 4 non-empty segments and facets, 5 score range
InvariantOf(error) ==
    CASE error.text = "size must be greater than 0" -> 1
      [] error.text \in {"center configuration is required",
                         "center.radius must be greater than 0",
                         "center.radius must be less than outer radius"} -> 2
      [] error.text \in {"scale configuration is required",
                         "scale.min must be less than or equal to scale.max",
                         "scale.rings must be greater than 0"} -> 3
      [] error.text \in {"segments array must contain at least one segment",
                         "segment must contain at least one facet"} -> 4
      [] error.text = "score must be between scale.min and scale.max" -> 5

\* C25: the error list of validateConfig is ordered by invariant number: any
\* message for invariant i appears before any message for an invariant j > i;
\* in particular the 'center.radius must be less than outer radius' message
\* precedes scale, segment and score messages.
C25_ErrorsInInvariantOrder ==
    pc = "validated" =>
        \A a, b \in 1..Len(validation.errors) :
            a < b => InvariantOf(validation.errors[a]) <= InvariantOf(validation.errors[b])

----------------------------------------------------------------------------
(* C26 *)

\* style.segmentFontSize, 28 when it is not set
BaseFontSize ==
    IF config.style.segmentFontSize.t = "number" /\ config.style.segmentFontSize.v # Whole(0)
    THEN config.style.segmentFontSize.v ELSE Whole(28)

\* the length of the longest segment name
LongestName ==
    CHOOSE n \in {Len(config.segments[k].name) : k \in 1..Len(config.segments)} :
        \A k \in 1..Len(config.segments) : Len(config.segments[k].name) <= n

\* the arc available to a segment label's text: the segment's angle less 3
\* degrees at each end, at the text radius
AvailableArc(label) ==
    Mul(Mul(label.textRadius, Sub(Div(Whole(360), Whole(Len(config.segments))), Whole(6))),
        Div(MathPI, Whole(180)))

\* the font size is at most the base size, the base size when `chars`
\* characters at 0.6 * fontSize each fit the arc, and otherwise a smaller size
\* at which they fit
FontFitsArc(label, chars) ==
    LET Width(fontSize) == Mul(Mul(Whole(chars), Rat(3, 5)), fontSize)
        arc == AvailableArc(label)
    IN  /\ Le(label.fontSize, BaseFontSize)
        /\ Le(Width(BaseFontSize), arc) => label.fontSize = BaseFontSize
        /\ Gt(Width(BaseFontSize), arc) =>
              /\ Lt(label.fontSize, BaseFontSize)
              /\ Le(Width(label.fontSize), arc)

\* C26 as claimed: the segment-label font size only shrinks: it is at most the
\* base size (style.segmentFontSize, default 28), equals the base size
\* whenever the estimated width of the longest segment name at 0.6 * fontSize
\* per character fits the available arc length, and otherwise is scaled down
\* so that the estimated width fits that arc length.
C26_FontFitsLongestName ==
    Count("segment-labels") = 1 =>
        \A n \in 1..Len(TheGroup("segment-labels").items) :
            FontFitsArc(TheGroup("segment-labels").items[n], LongestName)

\* C26, amended: the same with the width estimated for the longest name and
\* one character of padding, (length + 1) * 0.6 * fontSize.
C26_FontFitsPaddedName ==
    Count("segment-labels") = 1 =>
        \A n \in 1..Len(TheGroup("segment-labels").items) :
            FontFitsArc(TheGroup("segment-labels").items[n], LongestName + 1)

\* a finished render of three segments, one of them named "Strategy", at the
\* default base size on a diagram of size 40: the labels are set in 20px
C26_Witness ==
    /\ pc = "done"
    /\ Len(config.segments) = 3
    /\ LongestName = 8
    /\ config.style.segmentFontSize = Undefined
    /\ \A n \in 1..3 : TheGroup("segment-labels").items[n].fontSize = Whole(20)

----------------------------------------------------------------------------
(* C27 *)

\* the lines of the hub label: center.label split on '&', each part trimmed
LabelLines == HubLines(config.center.label)

\* the length of the longest line of the hub label
LongestLine == MaxOf([i \in 1..Len(LabelLines) |-> Len(LabelLines[i])])

\* the hub's text elements
HubTexts == SelectSeq(TheGroup("center-hub").items, LAMBDA item : item.kind = "text")

\* the font size is a number at which the longest line is estimated no wider
\* than 1.6 * center.radius
HubLabelFits(text) ==
    /\ text.fontSize.t = "number"
    /\ Le(Mul(Mul(Rat(3, 5), text.fontSize.v), Whole(LongestLine)),
          Mul(Rat(8, 5), config.center.radius))

\* C27: the hub label always fits the hub: for every valid config and every
\* center.label (split on '&' into trimmed lines), the font size chosen for
\* the hub label makes the estimated width of the longest line,
\* 0.6 * fontSize * (longest line length), no greater than 1.6 * center.radius.
C27_HubLabelFits ==
    Count("center-hub") = 1 =>
        \A n \in 1..Len(HubTexts) : HubLabelFits(HubTexts[n])

----------------------------------------------------------------------------
(* C28 *)

\* the shapes the renderer has built with segmentPath so far: the segment
\* backgrounds, the score fills and the segment-label backgrounds
AnnularShapes ==
    UNION {{elements[n].items[i] : i \in 1..Len(elements[n].items)} :
              n \in {m \in 1..Len(elements) :
                        elements[m].class \in {"segment-backgrounds", "score-fills",
                                               "segment-labels"}}}

\* C28: every annular shape the renderer builds with segmentPath (segment
\* backgrounds, score fills, segment-label backgrounds) has an angular span
\* strictly greater than 0 and strictly less than 360 degrees, so the start and
\* end points of each of its arcs are distinct; this includes a config with a
\* single segment and a single facet.
C28_SpanInsideFullTurn ==
    \A shape \in AnnularShapes :
        LET span == Sub(shape.endAngle, shape.startAngle)
        IN  Lt(Whole(0), span) /\ Lt(span, Whole(360))

----------------------------------------------------------------------------
(* C29 *)

\* the score labels of the render
ScoreLabels == TheGroup("score-labels").items

\* label i (from 0) is scale.min + i, at the mid-radius of ring band i
ScoreLabelPlaced(n) ==
    LET ringStep == Div(Sub(renderer.outerRadius, config.center.radius), config.scale.rings)
    IN  /\ ScoreLabels[n].label = Add(config.scale.min, Whole(n - 1))
        /\ ScoreLabels[n].radius =
              Add(config.center.radius, Mul(Rat(2 * n - 1, 2), ringStep))

\* C29 as claimed: when score labels are shown, each emitted score label is a
\* value of the scale: the labels are scale.min, scale.min + 1, ... and every
\* one lies within [scale.min, scale.max], even when scale.rings differs from
\* the level count scale.max - scale.min + 1; each label sits at the
\* mid-radius of its ring band,
\* center.radius + (i + 0.5) * (outerRadius - center.radius) / rings.
C29_ScoreLabelsWithinScale ==
    Count("score-labels") = 1 =>
        \A n \in 1..Len(ScoreLabels) :
            /\ ScoreLabelPlaced(n)
            /\ Le(config.scale.min, ScoreLabels[n].label)
            /\ Le(ScoreLabels[n].label, config.scale.max)

----------------------------------------------------------------------------
(* C30 *)

\* the mid-angle of segment k (from 1), brought into [0, 360)
SegmentMid(k) ==
    LET segAngle == Div(Whole(360), Whole(Len(config.segments)))
    IN  InTurn(Add(Add(config.startAngle, Mul(Whole(k - 1), segAngle)),
                   Div(segAngle, Whole(2))))

\* the mid-angle of facet j of segment k (both from 1), not normalized
FacetMid(k, j) ==
    LET segAngle == Div(Whole(360), Whole(Len(config.segments)))
        facetSpan == Div(segAngle, Whole(Len(config.segments[k].facets)))
    IN  Add(Add(config.startAngle, Mul(Whole(k - 1), segAngle)),
            Mul(Rat(2 * j - 1, 2), facetSpan))

\* C30: facet label flip and anchor never disagree: within one segment all
\* facet labels share one rotation offset and one anchor, both decided by the
\* segment's mid-angle m normalized into [0, 360): offset 180 with anchor
\* 'start' exactly when 90 < m <= 270, and offset 0 with anchor 'end'
\* otherwise; each label's rotation is its own facet mid-angle (not
\* normalized) plus that offset, and its position is at radius
\* outerRadius - 20 on that mid-angle.
C30_FlipAndAnchorAgree ==
    Count("facet-labels") = 1 =>
        \A n \in 1..Len(TheGroup("facet-labels").items) :
            LET label == TheGroup("facet-labels").items[n]
                m == SegmentMid(label.seg + 1)
                mid == FacetMid(label.seg + 1, label.facet + 1)
                flipped == Lt(Whole(90), m) /\ Le(m, Whole(270))
            IN  /\ label.anchor = (IF flipped THEN "start" ELSE "end")
                /\ label.rotation = Add(mid, IF flipped THEN Whole(180) ELSE Whole(0))
                /\ label.angle = mid
                /\ label.radius = Sub(renderer.outerRadius, Whole(20))

\* a finished render of one segment of two facets from startAngle 90: the
\* segment's mid-angle is exactly 270, so its labels, at 180 and 360, are
\* flipped: anchor 'start', rotations 360 and 540
C30_Witness ==
    /\ pc = "done"
    /\ Len(TheGroup("facet-labels").items) = 2
    /\ SegmentMid(1) = Whole(270)
    /\ \A n \in 1..2 : TheGroup("facet-labels").items[n].anchor = "start"
    /\ TheGroup("facet-labels").items[1].rotation = Whole(360)
    /\ TheGroup("facet-labels").items[2].rotation = Whole(540)
    /\ TheGroup("facet-labels").items[2].angle = Whole(360)

====
